---- MODULE Spec2Model ----
(***************************************************************************)
(* Model of the translate edge function (supabase/functions/translate):    *)
(* the request validator, the URL and model resolvers, the provider        *)
(* callers and the dispatcher that routes one inbound request to one       *)
(* outbound provider call and maps the outcome to a response.              *)
(*                                                                         *)
(* Strings that the code inspects character-wise (URLs, model names,       *)
(* translated text) are sequences of tokens: "/" and " " are tokens of     *)
(* their own, a digit is a token, every other token is an opaque run of    *)
(* characters holding neither "/" nor white space.  Strings the code only  *)
(* tests for truthiness or looks up in a table are TLA+ strings.  User     *)
(* facing messages written in Chinese in the source are given in English.  *)
(***************************************************************************)
EXTENDS Integers, Sequences, FiniteSets, TLC

\* pc .. log: the handler of one request at a time; slots: the handlers of
\* several requests in flight at once; pure: one application of a pure
\* function of the program to drawn arguments
VARIABLES pc, env, req, call, calls, reply, resp, log, slots, pure, client

vars == <<pc, env, req, call, calls, reply, resp, log, slots, pure, client>>

(***************************************************************************)
(* Bounds of the model.                                                    *)
(***************************************************************************)
\* how far beyond MAX_TEXT_LENGTH the enumerated text lengths go
MaxOver == 2

\* the longest requested model name, in tokens, a resolver is applied to
MaxModelLen == 3

\* the most slashes and blanks that follow a URL a normalizer is applied to
MaxTail == 2

\* the number of requests in flight at once
MaxHandlers == 2

\* the longest key, base URL and model, in tokens, of a stored provider
MaxConfigLen == 2

\* the most providers in the client's store
MaxProviders == 2

\* the most translate calls of the text view, and the distinct non-blank
\* source texts a user types
MaxCalls == 3

MaxTexts == 2

\* the most runs of a document translation, and the pages of the document
MaxRuns == 2

MaxPages == 2

\* the most providers added in one session of the settings dialog
MaxAdded == 2

(***************************************************************************)
(* JavaScript values.                                                      *)
(***************************************************************************)
\* the value undefined of a string-typed field the code only tests or looks up
Undefined == "<undefined>"

\* the value undefined of a string the code inspects (a token sequence)
UNDEF == <<"<undefined>">>

\* JavaScript truthiness of an optional string
Truthy(s) == s # Undefined /\ s # ""

\* JavaScript truthiness of an optional token string
TruthyS(s) == s # UNDEF /\ s # <<>>

Digits == {"0", "1", "2", "3", "4", "5", "6", "7", "8", "9"}

\* the newline character, as a token
NL == "<NL>"

\* the backquote character, as a token
BackTick == "<BQ>"

\* the tokens the regular expression class \s matches
WhiteSpace == {" ", NL}

RECURSIVE TrimStart(_)
TrimStart(s) == IF s # <<>> /\ Head(s) \in WhiteSpace THEN TrimStart(Tail(s)) ELSE s

RECURSIVE TrimEnd(_)
TrimEnd(s) ==
  IF s # <<>> /\ s[Len(s)] \in WhiteSpace
  THEN TrimEnd(SubSeq(s, 1, Len(s) - 1))
  ELSE s

\* String.prototype.trim
Trim(s) == TrimEnd(TrimStart(s))

\* String.prototype.endsWith
EndsWith(s, suf) ==
  /\ Len(suf) <= Len(s)
  /\ SubSeq(s, Len(s) - Len(suf) + 1, Len(s)) = suf

\* String.prototype.includes
Includes(s, sub) ==
  \E i \in 1..(Len(s) - Len(sub) + 1) : SubSeq(s, i, i + Len(sub) - 1) = sub

RECURSIVE StripTrailingSlashes(_)
StripTrailingSlashes(s) ==
  IF s # <<>> /\ s[Len(s)] = "/"
  THEN StripTrailingSlashes(SubSeq(s, 1, Len(s) - 1))
  ELSE s

(***************************************************************************)
(* Program constants.                                                      *)
(***************************************************************************)
MAX_TEXT_LENGTH == 50000

DEFAULT_AZURE_API_VERSION == "api-version=2024-10-21"

VALID_LANGS ==
  {"auto", "zh", "en", "ja", "ko", "fr", "de", "es", "pt", "it", "ru", "ar",
   "th", "vi", "id", "ms", "hi", "tr", "pl", "nl", "sv", "da", "fi", "no",
   "uk", "cs", "ro", "el", "hu", "bg"}

ProviderTypes ==
  {"openai", "gemini", "anthropic", "azure", "ollama", "deepseek", "qwen",
   "deeplx", "microsoft", "google-translate", "custom"}

OPENAI_COMPATIBLE_PROVIDERS == {"openai", "deepseek", "qwen", "ollama", "custom"}

\* langMap[code] || code
langMap(code) ==
  CASE code = "auto" -> "auto-detect the source language"
    [] code = "zh" -> "Chinese"    [] code = "en" -> "English"
    [] code = "ja" -> "Japanese"   [] code = "ko" -> "Korean"
    [] code = "fr" -> "French"     [] code = "de" -> "German"
    [] code = "es" -> "Spanish"    [] code = "pt" -> "Portuguese"
    [] code = "it" -> "Italian"    [] code = "ru" -> "Russian"
    [] code = "ar" -> "Arabic"     [] code = "th" -> "Thai"
    [] code = "vi" -> "Vietnamese" [] code = "id" -> "Indonesian"
    [] code = "ms" -> "Malay"      [] code = "hi" -> "Hindi"
    [] code = "tr" -> "Turkish"    [] code = "pl" -> "Polish"
    [] code = "nl" -> "Dutch"      [] code = "sv" -> "Swedish"
    [] code = "da" -> "Danish"     [] code = "fi" -> "Finnish"
    [] code = "no" -> "Norwegian"  [] code = "uk" -> "Ukrainian"
    [] code = "cs" -> "Czech"      [] code = "ro" -> "Romanian"
    [] code = "el" -> "Greek"      [] code = "hu" -> "Hungarian"
    [] code = "bg" -> "Bulgarian"
    [] OTHER -> code

\* msLangMap[code] || code
msLangMap(code) ==
  CASE code = "zh" -> "zh-Hans"
    [] code = "no" -> "nb"
    [] OTHER -> code

\* googleLangMap[code] || code
googleLangMap(code) ==
  CASE code = "zh" -> "zh-CN"
    [] code = "no" -> "no"
    [] OTHER -> msLangMap(code)

ChatCompletions == <<"/", "chat", "/", "completions">>

V1 == <<"/", "v", "1">>

LovableGatewayUrl == <<"https://ai.gateway.lovable.dev">> \o V1 \o ChatCompletions

LovableModel == <<"google", "/", "gemini-3-flash-preview">>

GoogleTranslateUrl ==
  <<"https://translation.googleapis.com", "/", "language", "/", "translate",
    "/", "v", "2">>

DEFAULT_PROVIDER_BASE_URLS(providerType) ==
  CASE providerType = "openai" -> <<"https://api.openai.com">> \o V1 \o ChatCompletions
    [] providerType = "gemini" ->
         <<"https://generativelanguage.googleapis.com", "/", "v", "1", "beta">>
    [] providerType = "anthropic" ->
         <<"https://api.anthropic.com">> \o V1 \o <<"/", "messages">>
    [] providerType = "azure" -> <<>>
    [] providerType = "ollama" -> <<"http://localhost:11434">> \o V1 \o ChatCompletions
    [] providerType = "deepseek" ->
         <<"https://api.deepseek.com">> \o V1 \o ChatCompletions
    [] providerType = "qwen" ->
         <<"https://dashscope.aliyuncs.com", "/", "compatible-mode">>
           \o V1 \o ChatCompletions
    [] providerType = "deeplx" -> <<"https://api.deeplx.org", "/", "translate">>
    [] providerType = "microsoft" -> <<"https://api.cognitive.microsofttranslator.com">>
    [] providerType = "google-translate" -> <<"https://translation.googleapis.com">>
    [] providerType = "custom" -> <<>>
    [] OTHER -> UNDEF

DEFAULT_MODELS(providerType) ==
  CASE providerType = "openai" -> <<"gpt-4o-mini">>
    [] providerType = "gemini" -> <<"gemini-2.5-flash">>
    [] providerType = "anthropic" -> <<"claude-sonnet-4-20250514">>
    [] providerType = "azure" -> <<"gpt-4o-mini">>
    [] providerType = "ollama" -> <<"llama3">>
    [] providerType = "deepseek" -> <<"deepseek-chat">>
    [] providerType = "qwen" -> <<"qwen-turbo">>
    [] providerType = "custom" -> <<"gpt-4o-mini">>
    [] OTHER -> UNDEF

(***************************************************************************)
(* Error messages.  A message is its fixed text, the number embedded in it *)
(* (0 when the text embeds none) and the URL quoted in it (empty when the  *)
(* text quotes none).                                                      *)
(***************************************************************************)
Msg(text) == [text |-> text, n |-> 0, url |-> <<>>]

MsgN(text, n) == [text |-> text, n |-> n, url |-> <<>>]

\* a message of the runtime that quotes the URL it failed on
MsgU(text, url) == [text |-> text, n |-> 0, url |-> url]

EmptyMsg == Msg("")

\* the fixed message thrown on an upstream 429 (part_000 line 358)
MSG_RATE_LIMITED == Msg("Too many requests, please retry later.")

\* the fixed message thrown on an upstream 402 (part_000 line 359)
MSG_QUOTA_EXHAUSTED == Msg("AI quota exhausted, please top up and retry.")

\* the generic message with the upstream status in it (part_000 line 362)
MSG_REQUEST_FAILED(status) == MsgN("Translation request failed (N)", status)

MSG_UNAVAILABLE == Msg("DEFAULT_TRANSLATION_SERVICE_UNAVAILABLE")

\* the user facing message of the 503 response (part_000 line 624)
MSG_CONFIGURE_CUSTOM ==
  Msg("Default translation service unavailable, configure a custom provider and retry")

\* "<provider> needs an API Key" (part_000 lines 579-591)
MSG_NEEDS_KEY(providerName) == Msg(providerName \o " requires API Key")

\* "Azure OpenAI needs a Base URL" (part_000 line 461)
MSG_AZURE_NEEDS_BASE_URL == Msg("Azure OpenAI requires a Base URL")

(***************************************************************************)
(* Thrown values.                                                          *)
(***************************************************************************)
Error(message) == [isError |-> TRUE, message |-> message]

NoError == [isError |-> FALSE, message |-> EmptyMsg]

\* TypeError of new URL(...) and of fetch(...) on a string that is no absolute
\* URL; the runtime's message quotes the string
InvalidUrlError(url) == Error(MsgU("Invalid URL", url))

\* SyntaxError of req.json() / response.json() on a body that is not JSON
JsonSyntaxError == Error(Msg("Unexpected token in JSON"))

\* what a failed fetch of url rejects with: a TypeError whose message quotes
\* the URL or does not, or an error without a message
TransportErrors(url) ==
  {Error(MsgU("error sending request for url", url)),
   Error(Msg("error sending request")), Error(EmptyMsg)}

\* the wordings the runtime can give a thrown value: with the URL quoted in
\* its message, or without
Wordings(e) == {e, [e EXCEPT !.message.url = <<>>]}

toErrorMessageMissesFallback(error, fallback) == error.message

\* error instanceof Error && error.message ? error.message : fallback
toErrorMessage(error, fallback) ==
  IF error.isError /\ error.message.text # "" THEN error.message ELSE fallback

(***************************************************************************)
(* URL and model resolvers.                                                *)
(***************************************************************************)
normalizeBaseUrl(url) == StripTrailingSlashes(Trim(url))

\* /\/v\d+$/.test(url)
EndsWithVersion(url) ==
  \E k \in 1..Len(url) :
    /\ Len(url) >= k + 2
    /\ url[Len(url) - k - 1] = "/"
    /\ url[Len(url) - k] = "v"
    /\ \A i \in (Len(url) - k + 1)..Len(url) : url[i] \in Digits

normalizeOpenAICompatibleUrlOnlyV1(rawUrl) ==
  LET url == normalizeBaseUrl(rawUrl) IN
  IF url = <<>> THEN DEFAULT_PROVIDER_BASE_URLS("openai")
  ELSE IF EndsWith(url, ChatCompletions) THEN url
  ELSE IF EndsWith(url, V1) THEN url \o ChatCompletions
  ELSE url \o V1 \o ChatCompletions

normalizeOpenAICompatibleUrl(rawUrl) ==
  LET url == normalizeBaseUrl(rawUrl) IN
  IF url = <<>> THEN DEFAULT_PROVIDER_BASE_URLS("openai")
  ELSE IF EndsWith(url, ChatCompletions) THEN url
  ELSE IF EndsWith(url, V1) THEN url \o ChatCompletions
  ELSE IF EndsWithVersion(url) THEN url \o ChatCompletions
  ELSE url \o V1 \o ChatCompletions

\* rawUrl || DEFAULT_PROVIDER_BASE_URLS[providerType]
OrDefault(rawUrl, providerType) ==
  IF TruthyS(rawUrl) THEN rawUrl ELSE DEFAULT_PROVIDER_BASE_URLS(providerType)

normalizeAnthropicUrl(rawUrl) ==
  LET base == normalizeBaseUrl(OrDefault(rawUrl, "anthropic")) IN
  IF EndsWith(base, V1 \o <<"/", "messages">>) THEN base
  ELSE IF EndsWith(base, V1) THEN base \o <<"/", "messages">>
  ELSE base \o V1 \o <<"/", "messages">>

normalizeGeminiBase(rawUrl) == normalizeBaseUrl(OrDefault(rawUrl, "gemini"))

normalizeDeepLXUrl(rawUrl) ==
  LET base == normalizeBaseUrl(OrDefault(rawUrl, "deeplx")) IN
  IF EndsWith(base, <<"/", "translate">>) THEN base ELSE base \o <<"/", "translate">>

resolveOpenAICompatibleUrl(providerType, customBaseUrl) ==
  LET own == DEFAULT_PROVIDER_BASE_URLS(providerType)
      fallback == IF TruthyS(own) THEN own ELSE DEFAULT_PROVIDER_BASE_URLS("openai")
  IN  normalizeOpenAICompatibleUrl(IF TruthyS(customBaseUrl) THEN customBaseUrl ELSE fallback)

resolveModelKeepsWhiteSpace(providerType, requestedModel) ==
  LET model == IF requestedModel = UNDEF THEN UNDEF ELSE Trim(requestedModel) IN
  IF TruthyS(model) THEN requestedModel
  ELSE IF TruthyS(DEFAULT_MODELS(providerType))
       THEN DEFAULT_MODELS(providerType)
       ELSE <<"gpt-4o-mini">>

resolveModel(providerType, requestedModel) ==
  LET model == IF requestedModel = UNDEF THEN UNDEF ELSE Trim(requestedModel) IN
  IF TruthyS(model) THEN model
  ELSE IF TruthyS(DEFAULT_MODELS(providerType))
       THEN DEFAULT_MODELS(providerType)
       ELSE <<"gpt-4o-mini">>

(***************************************************************************)
(* URLs as the runtime's URL class sees them: an absolute URL starts with  *)
(* a scheme-and-host token; "?" starts the query, "&" separates its        *)
(* parameters, a parameter is one token "name=value".                      *)
(***************************************************************************)
Origins ==
  {"https://api.openai.com", "https://generativelanguage.googleapis.com",
   "https://api.anthropic.com", "http://localhost:11434",
   "https://api.deepseek.com", "https://dashscope.aliyuncs.com",
   "https://api.deeplx.org", "https://api.cognitive.microsofttranslator.com",
   "https://translation.googleapis.com", "https://ai.gateway.lovable.dev",
   "https://my.host", "https://res.openai.azure.com"}

\* new URL(s) does not throw
IsAbsoluteUrl(s) ==
  s # <<>> /\ Head(s) \in Origins /\ \A i \in 1..Len(s) : s[i] \notin WhiteSpace

ApiVersionParams == {DEFAULT_AZURE_API_VERSION, "api-version=2023-05-15"}

\* parsed.searchParams.has("api-version")
HasApiVersion(url) ==
  \E i \in 1..Len(url) : \E j \in (i + 1)..Len(url) :
    url[i] = "?" /\ url[j] \in ApiVersionParams

\* parsed.searchParams.set("api-version", DEFAULT_AZURE_API_VERSION) on a URL
\* that has no such parameter, then parsed.toString()
SetApiVersion(url) ==
  LET withPath == IF Len(url) = 1 THEN url \o <<"/">> ELSE url IN
  IF \E i \in 1..Len(url) : url[i] = "?"
  THEN withPath \o <<"&", DEFAULT_AZURE_API_VERSION>>
  ELSE withPath \o <<"?", DEFAULT_AZURE_API_VERSION>>

\* encodeURIComponent, token by token
RECURSIVE encodeURIComponent(_)
encodeURIComponent(s) ==
  IF s = <<>> THEN <<>>
  ELSE <<CASE Head(s) = " " -> "%20"
           [] Head(s) = "/" -> "%2F"
           [] OTHER -> Head(s)>> \o encodeURIComponent(Tail(s))

\* the URL built, or UNDEF when new URL(...) throws
buildAzureUrl(baseUrl, model) ==
  LET normalized == normalizeBaseUrl(baseUrl)
      deployment == encodeURIComponent(model)
      built == normalized \o <<"/", "openai", "/", "deployments", "/">>
                 \o deployment \o ChatCompletions
  IN  IF Includes(normalized, ChatCompletions)
      THEN IF ~IsAbsoluteUrl(normalized) THEN UNDEF
           ELSE IF HasApiVersion(normalized) THEN normalized
           ELSE SetApiVersion(normalized)
      ELSE IF ~IsAbsoluteUrl(built) THEN UNDEF
           ELSE SetApiVersion(built)

(***************************************************************************)
(* Translated text: markdown stripping and the response extractors.        *)
(* A JSON value is its type and, for a string, its tokens.                 *)
(***************************************************************************)
Str(s) == [t |-> "string", s |-> s]

JsUndefined == [t |-> "undefined", s |-> <<>>]

\* a JSON value that is neither a string nor falsy (a number such as 42)
JsNumber == [t |-> "number", s |-> <<>>]

\* JavaScript truthiness of a JSON value
TruthyV(v) == v.t = "number" \/ (v.t = "string" /\ v.s # <<>>)

\* the place where the delimiter d closes a span opened at the head of s:
\* the first d that leaves at least one token between the two, 0 if none
ClosingAt(s, d) ==
  LET J == {j \in (Len(d) + 2)..(Len(s) - Len(d) + 1) : SubSeq(s, j, j + Len(d) - 1) = d}
  IN  IF J = {} THEN 0 ELSE CHOOSE j \in J : \A k \in J : j <= k

\* s.replace(/d(.+?)d/g, "$1"), the span holding no token of stop
RECURSIVE ReplaceDelimited(_, _, _)
ReplaceDelimited(s, d, stop) ==
  IF Len(s) < 2 * Len(d) + 1 THEN s
  ELSE LET j == ClosingAt(s, d) IN
       IF /\ SubSeq(s, 1, Len(d)) = d
          /\ j # 0
          /\ \A i \in (Len(d) + 1)..(j - 1) : s[i] \notin stop
       THEN SubSeq(s, Len(d) + 1, j - 1)
              \o ReplaceDelimited(SubSeq(s, j + Len(d), Len(s)), d, stop)
       ELSE <<Head(s)>> \o ReplaceDelimited(Tail(s), d, stop)

\* the number of tokens of marks at s[i..], at most max
RECURSIVE RunOf(_, _, _, _)
RunOf(s, i, marks, max) ==
  IF max = 0 \/ i > Len(s) \/ s[i] \notin marks THEN 0
  ELSE 1 + RunOf(s, i + 1, marks, max - 1)

\* s.replace(/^marks{1,max}\s+/gm, ""), from position i on
RECURSIVE StripLineMarkers(_, _, _, _)
StripLineMarkers(s, i, marks, max) ==
  IF i > Len(s) THEN <<>>
  ELSE LET atLineStart == i = 1 \/ s[i - 1] = NL
           m == RunOf(s, i, marks, max)
           w == RunOf(s, i + m, WhiteSpace, Len(s))
       IN  IF atLineStart /\ m >= 1 /\ w >= 1
           THEN StripLineMarkers(s, i + m + w, marks, max)
           ELSE <<s[i]>> \o StripLineMarkers(s, i + 1, marks, max)

sanitizeTranslatedText(text) ==
  LET bold == ReplaceDelimited(text, <<"*", "*">>, {NL})
      italic == ReplaceDelimited(bold, <<"*">>, {NL})
      headers == StripLineMarkers(italic, 1, {"#"}, 6)
      bullets == StripLineMarkers(headers, 1, {"-", "*", "+"}, 1)
  IN  ReplaceDelimited(bullets, <<BackTick>>, {BackTick})

\* parts.join("\n")
RECURSIVE Join(_)
Join(parts) ==
  IF parts = <<>> THEN <<>>
  ELSE IF Len(parts) = 1 THEN parts[1]
  ELSE parts[1] \o <<NL>> \o Join(Tail(parts))

\* the text of every item as join renders it: item.text || "", a number
\* as its digits
RECURSIVE TextsOf(_)
TextsOf(items) ==
  IF items = <<>> THEN <<>>
  ELSE <<IF items[1].text.t = "string" THEN items[1].text.s
         ELSE IF items[1].text.t = "number" THEN <<"42">>
         ELSE <<>>>>
         \o TextsOf(Tail(items))

RECURSIVE TextItems(_)
TextItems(items) ==
  IF items = <<>> THEN <<>>
  ELSE (IF items[1].type = "text" /\ items[1].text.t = "string"
        THEN <<items[1]>> ELSE <<>>) \o TextItems(Tail(items))

\* An upstream JSON body: items is the array the provider's extractor
\* walks (choices, candidates[0].content.parts, content, translations), an
\* item being [type, text]; the other four fields are those of a DeepLX body.
Body(items, translatedText, data, translation, text) ==
  [items |-> items, translatedText |-> translatedText, data |-> data,
   translation |-> translation, text |-> text]

Item(type, text) == [type |-> type, text |-> text]

\* choices?.[0]?.message?.content, trimmed when a string
getOpenAIContent(data) ==
  IF data.items # <<>> /\ data.items[1].text.t = "string"
  THEN Str(Trim(data.items[1].text.s))
  ELSE Str(<<>>)

getGeminiContent(data) ==
  IF data.items = <<>> THEN Str(<<>>) ELSE Str(Trim(Join(TextsOf(data.items))))

getAnthropicContent(data) ==
  IF data.items = <<>> THEN Str(<<>>) ELSE Str(Trim(Join(TextsOf(TextItems(data.items)))))

\* obj.translatedText || obj.data || obj.translation || obj.text || ""
getDeepLXContent(data) ==
  IF TruthyV(data.translatedText) THEN data.translatedText
  ELSE IF TruthyV(data.data) THEN data.data
  ELSE IF TruthyV(data.translation) THEN data.translation
  ELSE IF TruthyV(data.text) THEN data.text
  ELSE Str(<<>>)

\* data?.[0]?.translations?.[0]?.text || "" and
\* data?.data?.translations?.[0]?.translatedText || ""
getFirstTranslation(data) ==
  IF data.items # <<>> /\ TruthyV(data.items[1].text)
  THEN data.items[1].text
  ELSE Str(<<>>)

\* the system prompt: whether it asks to auto-detect or names the source,
\* and the names it renders
getSystemPrompt(sourceLang, targetLang) ==
  LET srcName == IF sourceLang # "" THEN langMap(sourceLang)
                 ELSE "auto-detect the source language"
      tgtName == IF targetLang # "" THEN langMap(targetLang) ELSE "English"
  IN  IF srcName = "auto-detect the source language"
      THEN [mode |-> "auto-detect", from |-> "", to |-> tgtName]
      ELSE [mode |-> "translate-from", from |-> srcName, to |-> tgtName]

NoPrompt == [mode |-> "none", from |-> "", to |-> ""]

(***************************************************************************)
(* Requests, outbound calls, responses, diagnostic log entries.            *)
(***************************************************************************)
\* the text field of a request body: its JavaScript type and, for a string,
\* its length (for a number, its value)
Text(t, n) == [t |-> t, n |-> n]

\* !text
Falsy(text) == text.t = "undefined" \/ text.n = 0

NoCall ==
  [caller |-> "none", route |-> "none", url |-> <<>>, authorization |-> Undefined,
   keyHeader |-> "", keyHeaderValue |-> Undefined, model |-> UNDEF,
   prompt |-> NoPrompt, src |-> Undefined, tgt |-> Undefined,
   text |-> Text("undefined", 0)]

Response(status, keys, translatedText, error) ==
  [status |-> status, keys |-> keys, translatedText |-> translatedText,
   error |-> error]

NoResp == Response(0, {}, JsUndefined, EmptyMsg)

ErrorResponseWithPartialResult(status, error) ==
  Response(status, {"error", "translatedText"}, Str(<<>>), error)

\* new Response(JSON.stringify({ error }), { status, ... })
ErrorResponse(status, error) == Response(status, {"error"}, JsUndefined, error)

\* new Response(JSON.stringify({ translatedText }), ...): JSON.stringify drops
\* a key whose value is undefined; the status defaults to 200
SuccessResponse(translatedText) ==
  Response(200, IF translatedText.t = "undefined" THEN {} ELSE {"translatedText"},
           translatedText, EmptyMsg)

\* new Response(null, { headers: corsHeaders })
PreflightResponse == Response(200, {}, JsUndefined, EmptyMsg)

\* console.error(tag, status, errText) of a caller, console.error(tag, e) of
\* the handler's catch
LogEntry(tag, status, err) == [tag |-> tag, status |-> status, err |-> err]

\* what the synchronous part of a function comes to: a response, a thrown
\* value, or a fetch it awaits
Respond(r) == [kind |-> "respond", resp |-> r, error |-> NoError, call |-> NoCall]

Throw(e) == [kind |-> "throw", resp |-> NoResp, error |-> e, call |-> NoCall]

Fetch(c) == [kind |-> "fetch", resp |-> NoResp, error |-> NoError, call |-> c]

\* fetch(url, ...): a string that is no absolute URL is rejected without any
\* request being sent
fetch(c) == IF IsAbsoluteUrl(c.url) THEN Fetch(c) ELSE Throw(InvalidUrlError(c.url))

(***************************************************************************)
(* Provider callers, up to their fetch.                                    *)
(***************************************************************************)
translateWithMicrosoft(text, sourceLang, targetLang, apiKey, baseUrl) ==
  LET from == IF sourceLang = "auto" THEN "" ELSE msLangMap(sourceLang)
      to == msLangMap(targetLang)
      endpoint == normalizeBaseUrl(OrDefault(baseUrl, "microsoft"))
      query == <<"?", "api-version=3.0", "&", "to=" \o to>>
                 \o (IF from # "" THEN <<"&", "from=" \o from>> ELSE <<>>)
  IN  IF ~IsAbsoluteUrl(endpoint) THEN Throw(InvalidUrlError(endpoint))
      ELSE fetch([NoCall EXCEPT
             !.caller = "translateWithMicrosoft",
             !.route = "translateWithMicrosoft",
             !.url = <<Head(endpoint), "/", "translate">> \o query,
             !.keyHeader = "Ocp-Apim-Subscription-Key",
             !.keyHeaderValue = apiKey,
             !.src = IF from # "" THEN from ELSE Undefined,
             !.tgt = to,
             !.text = text])

translateWithGoogle(text, sourceLang, targetLang, apiKey) ==
  LET target == googleLangMap(targetLang)
      source == IF sourceLang = "auto" THEN Undefined ELSE googleLangMap(sourceLang)
  IN  fetch([NoCall EXCEPT
             !.caller = "translateWithGoogle",
             !.route = "translateWithGoogle",
             !.url = GoogleTranslateUrl \o <<"?", "key=" \o apiKey>>,
             !.src = IF Truthy(source) THEN source ELSE Undefined,
             !.tgt = target,
             !.text = text])

translateWithOpenAICompatibleAlwaysAuthorizes(route, text, sourceLang, targetLang, apiUrl, apiKey, model, extraHeader) ==
  fetch([NoCall EXCEPT
          !.caller = "translateWithOpenAICompatible",
          !.route = route,
          !.url = apiUrl,
          !.authorization = apiKey,
          !.keyHeader = extraHeader,
          !.keyHeaderValue = IF extraHeader # "" THEN apiKey ELSE Undefined,
          !.model = model,
          !.prompt = getSystemPrompt(sourceLang, targetLang),
          !.text = text])

translateWithOpenAICompatible(route, text, sourceLang, targetLang, apiUrl, apiKey, model, extraHeader) ==
  fetch([NoCall EXCEPT
          !.caller = "translateWithOpenAICompatible",
          !.route = route,
          !.url = apiUrl,
          !.authorization = IF Truthy(apiKey) THEN apiKey ELSE Undefined,
          !.keyHeader = extraHeader,
          !.keyHeaderValue = IF extraHeader # "" THEN apiKey ELSE Undefined,
          !.model = model,
          !.prompt = getSystemPrompt(sourceLang, targetLang),
          !.text = text])

translateWithGemini(text, sourceLang, targetLang, apiKey, model, baseUrl) ==
  LET base == normalizeGeminiBase(baseUrl) IN
  fetch([NoCall EXCEPT
          !.caller = "translateWithGemini",
          !.route = "translateWithGemini",
          !.url = base \o <<"/", "models", "/">> \o model
                    \o <<":generateContent", "?", "key=" \o apiKey>>,
          !.model = model,
          !.prompt = getSystemPrompt(sourceLang, targetLang),
          !.text = text])

translateWithAnthropic(text, sourceLang, targetLang, apiKey, model, baseUrl) ==
  fetch([NoCall EXCEPT
          !.caller = "translateWithAnthropic",
          !.route = "translateWithAnthropic",
          !.url = normalizeAnthropicUrl(baseUrl),
          !.keyHeader = "x-api-key",
          !.keyHeaderValue = apiKey,
          !.model = model,
          !.prompt = getSystemPrompt(sourceLang, targetLang),
          !.text = text])

translateWithAzure(text, sourceLang, targetLang, apiKey, model, baseUrl) ==
  IF baseUrl = UNDEF \/ Trim(baseUrl) = <<>>
  THEN Throw(Error(MSG_AZURE_NEEDS_BASE_URL))
  ELSE LET apiUrl == buildAzureUrl(baseUrl, model) IN
       IF apiUrl = UNDEF THEN Throw(InvalidUrlError(normalizeBaseUrl(baseUrl)))
       ELSE translateWithOpenAICompatible("translateWithAzure", text, sourceLang,
                                          targetLang, apiUrl, apiKey, model, "api-key")

translateWithDeepLX(text, sourceLang, targetLang, baseUrl, apiKey) ==
  fetch([NoCall EXCEPT
          !.caller = "translateWithDeepLX",
          !.route = "translateWithDeepLX",
          !.url = normalizeDeepLXUrl(baseUrl),
          !.authorization = IF Truthy(apiKey) THEN apiKey ELSE Undefined,
          !.src = IF sourceLang = "auto" THEN "auto" ELSE sourceLang,
          !.tgt = targetLang,
          !.text = text])

translateWithLovableDefaultServiceUnchecked(text, sourceLang, targetLang, lovableApiKey) ==
  translateWithOpenAICompatible("translateWithLovableDefaultService", text,
                                sourceLang, targetLang, LovableGatewayUrl,
                                lovableApiKey, LovableModel, "")

translateWithLovableDefaultService(text, sourceLang, targetLang, lovableApiKey) ==
  IF ~Truthy(lovableApiKey) THEN Throw(Error(MSG_UNAVAILABLE))
  ELSE translateWithOpenAICompatible("translateWithLovableDefaultService", text,
                                     sourceLang, targetLang, LovableGatewayUrl,
                                     lovableApiKey, LovableModel, "")

(***************************************************************************)
(* The dispatcher (the serve handler).                                     *)
(***************************************************************************)
catchResponsePropagatesStatus(e) ==
  LET message == toErrorMessage(e, Msg("Unknown error"))
      status == IF message = MSG_UNAVAILABLE THEN 503
                ELSE IF message.n \in 400..599 THEN message.n ELSE 500
      errorMessage == IF message = MSG_UNAVAILABLE THEN MSG_CONFIGURE_CUSTOM ELSE message
  IN  ErrorResponse(status, errorMessage)

\* the catch block of the handler: the response it builds
catchResponse(e) ==
  LET message == toErrorMessage(e, Msg("Unknown error"))
      status == IF message = MSG_UNAVAILABLE THEN 503 ELSE 500
      errorMessage == IF message = MSG_UNAVAILABLE THEN MSG_CONFIGURE_CUSTOM ELSE message
  IN  ErrorResponse(status, errorMessage)

\* the catch block of the handler: what it logs
catchLog(e) == LogEntry("translate error:", 0, e)

validateSkipsLanguages(r) ==
  IF Falsy(r.text) THEN ErrorResponse(400, Msg("Missing text"))
  ELSE IF r.text.t # "string" \/ r.text.n > MAX_TEXT_LENGTH
  THEN ErrorResponse(413, MsgN("Text exceeds maximum length of N characters",
                               MAX_TEXT_LENGTH))
  ELSE NoResp

validateOffByOne(r) ==
  IF Falsy(r.text) THEN ErrorResponse(400, Msg("Missing text"))
  ELSE IF r.text.t # "string" \/ r.text.n >= MAX_TEXT_LENGTH
  THEN ErrorResponse(413, MsgN("Text exceeds maximum length of N characters",
                               MAX_TEXT_LENGTH))
  ELSE IF Truthy(r.sourceLang) /\ r.sourceLang \notin VALID_LANGS
  THEN ErrorResponse(400, Msg("Invalid source language"))
  ELSE IF Truthy(r.targetLang) /\ r.targetLang \notin VALID_LANGS
  THEN ErrorResponse(400, Msg("Invalid target language"))
  ELSE NoResp

\* the four validation checks, in the order of the code; NoResp when the
\* request passes them all
validate(r) ==
  IF Falsy(r.text) THEN ErrorResponse(400, Msg("Missing text"))
  ELSE IF r.text.t # "string" \/ r.text.n > MAX_TEXT_LENGTH
  THEN ErrorResponse(413, MsgN("Text exceeds maximum length of N characters",
                               MAX_TEXT_LENGTH))
  ELSE IF Truthy(r.sourceLang) /\ r.sourceLang \notin VALID_LANGS
  THEN ErrorResponse(400, Msg("Invalid source language"))
  ELSE IF Truthy(r.targetLang) /\ r.targetLang \notin VALID_LANGS
  THEN ErrorResponse(400, Msg("Invalid target language"))
  ELSE NoResp

usesDefaultServiceIgnoresBaseUrl(r) ==
  ~Truthy(r.providerType) /\ ~Truthy(r.customApiKey)

\* !providerType && !customApiKey && !customBaseUrl
usesDefaultService(r) ==
  ~Truthy(r.providerType) /\ ~Truthy(r.customApiKey) /\ ~TruthyS(r.customBaseUrl)

\* !customApiKey, the test of the five required-credential checks
missingKeyOnlyWhenAbsent(r) == r.customApiKey = Undefined

missingKey(r) == ~Truthy(r.customApiKey)

resolvedProviderDefaultsToOllama(r) ==
  IF Truthy(r.providerType) THEN r.providerType ELSE "ollama"

\* providerType || "openai"
resolvedProvider(r) == IF Truthy(r.providerType) THEN r.providerType ELSE "openai"

routeToProviderRejectsUnknown(r, src, tgt) ==
  LET resolvedModel == resolveModel(resolvedProvider(r), r.model)
      noKey == missingKey(r)
  IN  IF resolvedProvider(r) = "microsoft"
      THEN IF noKey THEN Throw(Error(MSG_NEEDS_KEY("Microsoft Translator")))
           ELSE translateWithMicrosoft(r.text, src, tgt, r.customApiKey, r.customBaseUrl)
      ELSE IF resolvedProvider(r) = "google-translate"
      THEN IF noKey THEN Throw(Error(MSG_NEEDS_KEY("Google Cloud Translation")))
           ELSE translateWithGoogle(r.text, src, tgt, r.customApiKey)
      ELSE IF resolvedProvider(r) = "gemini"
      THEN IF noKey THEN Throw(Error(MSG_NEEDS_KEY("Gemini")))
           ELSE translateWithGemini(r.text, src, tgt, r.customApiKey, resolvedModel,
                                    r.customBaseUrl)
      ELSE IF resolvedProvider(r) = "anthropic"
      THEN IF noKey THEN Throw(Error(MSG_NEEDS_KEY("Anthropic")))
           ELSE translateWithAnthropic(r.text, src, tgt, r.customApiKey, resolvedModel,
                                       r.customBaseUrl)
      ELSE IF resolvedProvider(r) = "azure"
      THEN IF noKey THEN Throw(Error(MSG_NEEDS_KEY("Azure OpenAI")))
           ELSE translateWithAzure(r.text, src, tgt, r.customApiKey, resolvedModel,
                                   r.customBaseUrl)
      ELSE IF resolvedProvider(r) = "deeplx"
      THEN translateWithDeepLX(r.text, src, tgt, r.customBaseUrl, r.customApiKey)
      ELSE IF resolvedProvider(r) \in OPENAI_COMPATIBLE_PROVIDERS
      THEN translateWithOpenAICompatible(
             "translateWithOpenAICompatible", r.text, src, tgt,
             resolveOpenAICompatibleUrl(resolvedProvider(r), r.customBaseUrl),
             r.customApiKey, resolvedModel, "")
      ELSE Throw(Error(Msg("Unsupported provider")))

\* the else branch of the routing decision: the chain of provider comparisons
routeToProvider(r, src, tgt) ==
  LET resolvedModel == resolveModel(resolvedProvider(r), r.model)
      noKey == missingKey(r)
  IN  IF resolvedProvider(r) = "microsoft"
      THEN IF noKey THEN Throw(Error(MSG_NEEDS_KEY("Microsoft Translator")))
           ELSE translateWithMicrosoft(r.text, src, tgt, r.customApiKey, r.customBaseUrl)
      ELSE IF resolvedProvider(r) = "google-translate"
      THEN IF noKey THEN Throw(Error(MSG_NEEDS_KEY("Google Cloud Translation")))
           ELSE translateWithGoogle(r.text, src, tgt, r.customApiKey)
      ELSE IF resolvedProvider(r) = "gemini"
      THEN IF noKey THEN Throw(Error(MSG_NEEDS_KEY("Gemini")))
           ELSE translateWithGemini(r.text, src, tgt, r.customApiKey, resolvedModel,
                                    r.customBaseUrl)
      ELSE IF resolvedProvider(r) = "anthropic"
      THEN IF noKey THEN Throw(Error(MSG_NEEDS_KEY("Anthropic")))
           ELSE translateWithAnthropic(r.text, src, tgt, r.customApiKey, resolvedModel,
                                       r.customBaseUrl)
      ELSE IF resolvedProvider(r) = "azure"
      THEN IF noKey THEN Throw(Error(MSG_NEEDS_KEY("Azure OpenAI")))
           ELSE translateWithAzure(r.text, src, tgt, r.customApiKey, resolvedModel,
                                   r.customBaseUrl)
      ELSE IF resolvedProvider(r) = "deeplx"
      THEN translateWithDeepLX(r.text, src, tgt, r.customBaseUrl, r.customApiKey)
      ELSE IF resolvedProvider(r) \in OPENAI_COMPATIBLE_PROVIDERS
      THEN translateWithOpenAICompatible(
             "translateWithOpenAICompatible", r.text, src, tgt,
             resolveOpenAICompatibleUrl(resolvedProvider(r), r.customBaseUrl),
             r.customApiKey, resolvedModel, "")
      ELSE translateWithOpenAICompatible(
             "translateWithOpenAICompatible", r.text, src, tgt,
             resolveOpenAICompatibleUrl("openai", r.customBaseUrl),
             r.customApiKey, resolvedModel, "")

serveDefaultsOnlyAbsentLanguages(r, lovableApiKey) ==
  IF r.method = "OPTIONS" THEN Respond(PreflightResponse)
  ELSE IF ~r.bodyIsJson THEN Throw(JsonSyntaxError)
  ELSE IF validate(r) # NoResp THEN Respond(validate(r))
  ELSE LET src == IF r.sourceLang # Undefined THEN r.sourceLang ELSE "auto"
           tgt == IF r.targetLang # Undefined THEN r.targetLang ELSE "en"
       IN  IF usesDefaultService(r)
           THEN translateWithLovableDefaultService(r.text, src, tgt, lovableApiKey)
           ELSE routeToProvider(r, src, tgt)

\* the handler from the request to its first fetch (or to its response when
\* it makes none)
serve(r, lovableApiKey) ==
  IF r.method = "OPTIONS" THEN Respond(PreflightResponse)
  ELSE IF ~r.bodyIsJson THEN Throw(JsonSyntaxError)
  ELSE IF validate(r) # NoResp THEN Respond(validate(r))
  ELSE LET src == IF Truthy(r.sourceLang) THEN r.sourceLang ELSE "auto"
           tgt == IF Truthy(r.targetLang) THEN r.targetLang ELSE "en"
       IN  IF usesDefaultService(r)
           THEN translateWithLovableDefaultService(r.text, src, tgt, lovableApiKey)
           ELSE routeToProvider(r, src, tgt)

(***************************************************************************)
(* Provider callers, from the upstream response on.                        *)
(***************************************************************************)
\* response.ok
Ok(status) == status \in 200..299

\* the console.error tag and the message of a caller's non-2xx branch
errorTag(caller) ==
  CASE caller = "translateWithMicrosoft" -> "Microsoft Translator error:"
    [] caller = "translateWithGoogle" -> "Google Translate error:"
    [] caller = "translateWithOpenAICompatible" -> "OpenAI-compatible gateway error:"
    [] caller = "translateWithGemini" -> "Gemini error:"
    [] caller = "translateWithAnthropic" -> "Anthropic error:"
    [] caller = "translateWithDeepLX" -> "DeepLX error:"

failureMessageNoSpecialCase(caller, status) ==
  CASE caller = "translateWithMicrosoft" -> MsgN("Microsoft Translator error (N)", status)
    [] caller = "translateWithGoogle" -> MsgN("Google Translate error (N)", status)
    [] caller = "translateWithOpenAICompatible" -> MSG_REQUEST_FAILED(status)
    [] caller = "translateWithGemini" -> MsgN("Gemini translation failed (N)", status)
    [] caller = "translateWithAnthropic" -> MsgN("Anthropic translation failed (N)", status)
    [] caller = "translateWithDeepLX" -> MsgN("DeepLX translation failed (N)", status)

failureMessageEveryLLM(caller, status) ==
  IF caller \in {"translateWithOpenAICompatible", "translateWithGemini",
                 "translateWithAnthropic"} /\ status \in {429, 402}
  THEN IF status = 429 THEN MSG_RATE_LIMITED ELSE MSG_QUOTA_EXHAUSTED
  ELSE failureMessageNoSpecialCase(caller, status)

failureMessage(caller, status) ==
  CASE caller = "translateWithMicrosoft" -> MsgN("Microsoft Translator error (N)", status)
    [] caller = "translateWithGoogle" -> MsgN("Google Translate error (N)", status)
    [] caller = "translateWithOpenAICompatible" ->
         IF status = 429 THEN MSG_RATE_LIMITED
         ELSE IF status = 402 THEN MSG_QUOTA_EXHAUSTED
         ELSE MSG_REQUEST_FAILED(status)
    [] caller = "translateWithGemini" -> MsgN("Gemini translation failed (N)", status)
    [] caller = "translateWithAnthropic" -> MsgN("Anthropic translation failed (N)", status)
    [] caller = "translateWithDeepLX" -> MsgN("DeepLX translation failed (N)", status)

\* what the non-2xx branch of a caller logs: the 429 and 402 branches of the
\* OpenAI-compatible caller throw before they log
failureLog(caller, status) ==
  IF caller = "translateWithOpenAICompatible" /\ status \in {429, 402}
  THEN <<>>
  ELSE <<LogEntry(errorTag(caller), status, NoError)>>

\* what a caller returns from a 2xx JSON body
extract(caller, data) ==
  CASE caller = "translateWithMicrosoft" -> getFirstTranslation(data)
    [] caller = "translateWithGoogle" -> getFirstTranslation(data)
    [] caller = "translateWithOpenAICompatible" ->
         Str(sanitizeTranslatedText(getOpenAIContent(data).s))
    [] caller = "translateWithGemini" ->
         Str(sanitizeTranslatedText(getGeminiContent(data).s))
    [] caller = "translateWithAnthropic" ->
         Str(sanitizeTranslatedText(getAnthropicContent(data).s))
    [] caller = "translateWithDeepLX" -> getDeepLXContent(data)

(***************************************************************************)
(* The inputs the model draws from.                                        *)
(***************************************************************************)
TextLengths == {1, MAX_TEXT_LENGTH} \cup (MAX_TEXT_LENGTH + 1)..(MAX_TEXT_LENGTH + MaxOver)

\* absent, the empty string, the numbers 0 and 7, and strings by length
Texts ==
  {Text("undefined", 0), Text("string", 0), Text("number", 0), Text("number", 7)}
    \cup {Text("string", n) : n \in TextLengths}

SourceLangs == {Undefined, "", "zh", "xx"}

TargetLangs == {Undefined, "", "no", "xx"}

Providers == {Undefined, "bogus"} \cup ProviderTypes

ApiKeys == {Undefined, "", "sk-user-key"}

BaseUrls ==
  {UNDEF, <<>>, <<" ">>,
   <<"https://my.host">>,
   <<"https://my.host", "/", "v", "2", "/">>,
   LovableGatewayUrl,
   <<"my.host", "/", "api">>,
   <<"https://res.openai.azure.com", "/", "openai", "/", "deployments", "/", "d1">>
     \o ChatCompletions \o <<"?", "api-version=2023-05-15">>}

RequestedModels == {UNDEF, <<" ", "my-model">>}

\* the values of the LOVABLE_API_KEY secret of a deployment
LovableApiKeys == {Undefined, "lovable-key"}

Request(method, bodyIsJson, text, sourceLang, targetLang, customApiKey, customBaseUrl, providerType, model) ==
  [method |-> method, bodyIsJson |-> bodyIsJson, text |-> text,
   sourceLang |-> sourceLang, targetLang |-> targetLang,
   customApiKey |-> customApiKey, customBaseUrl |-> customBaseUrl,
   providerType |-> providerType, model |-> model]

NoReq ==
  Request("none", FALSE, Text("undefined", 0), Undefined, Undefined, Undefined,
          UNDEF, Undefined, UNDEF)

\* a CORS preflight
PreflightRequest == [NoReq EXCEPT !.method = "OPTIONS"]

\* a POST whose body is not JSON
GarbledRequest == [NoReq EXCEPT !.method = "POST"]

PostRequests ==
  {Request("POST", TRUE, text, sourceLang, targetLang, customApiKey, customBaseUrl,
           providerType, model) :
     text \in Texts, sourceLang \in SourceLangs, targetLang \in TargetLangs,
     customApiKey \in ApiKeys, customBaseUrl \in BaseUrls,
     providerType \in Providers, model \in RequestedModels}

Requests == PostRequests \cup {PreflightRequest, GarbledRequest}

NoBody == Body(<<>>, JsUndefined, JsUndefined, JsUndefined, JsUndefined)

Hola == Str(<<"Hola">>)

\* 2xx JSON bodies of the array-shaped providers
ItemBodies ==
  {NoBody,
   [NoBody EXCEPT !.items = <<Item("text", Hola)>>],
   [NoBody EXCEPT !.items = <<Item("text", Str(<<" ", "*", "*", "Hola", "*", "*", NL>>))>>],
   [NoBody EXCEPT !.items = <<Item("text", Str(<<>>))>>],
   [NoBody EXCEPT !.items = <<Item("text", JsNumber)>>],
   [NoBody EXCEPT !.items = <<Item("tool_use", Hola), Item("text", Str(<<"Adios">>))>>]}

\* 2xx JSON bodies of DeepLX
DeepLXBodies ==
  {NoBody,
   [NoBody EXCEPT !.data = Hola],
   [NoBody EXCEPT !.translatedText = Str(<<>>), !.translation = Hola,
                  !.text = Str(<<"Adios">>)],
   [NoBody EXCEPT !.text = JsNumber]}

UpstreamStatuses == {200, 401, 402, 429, 500, 503}

\* the outcome of the fetch as the caller sees it
Reply(kind, status, bodyIsJson, body, error) ==
  [kind |-> kind, status |-> status, bodyIsJson |-> bodyIsJson, body |-> body,
   error |-> error]

NoReply == Reply("none", 0, FALSE, NoBody, NoError)

Replies(caller) ==
  {Reply("response", status, FALSE, NoBody, NoError) : status \in UpstreamStatuses}
    \cup {Reply("response", 200, TRUE, body, NoError) :
            body \in IF caller = "translateWithDeepLX" THEN DeepLXBodies ELSE ItemBodies}

(***************************************************************************)
(* The state machine: one request at a time, from its arrival to its       *)
(* response.                                                               *)
(***************************************************************************)
\* no handlers in flight besides the one of pc .. log
NoSlots == <<>>

\* no pure function applied
NoPure == [fn |-> "none"]

\* no browser view open
NoClient == [view |-> "none"]

Init ==
  /\ pc = "idle"
  /\ env \in LovableApiKeys
  /\ req = NoReq
  /\ call = NoCall
  /\ calls = 0
  /\ reply = NoReply
  /\ resp = NoResp
  /\ log = <<>>
  /\ slots = NoSlots
  /\ pure = NoPure
  /\ client = NoClient

\* a request arrives
Receive ==
  /\ pc = "idle"
  /\ \E r \in Requests : req' = r
  /\ pc' = "received"
  /\ UNCHANGED <<env, call, calls, reply, resp, log, slots, pure, client>>

\* the handler runs up to its first await of a fetch, or to its response
Dispatch ==
  /\ pc = "received"
  /\ LET o == serve(req, env) IN
       CASE o.kind = "respond" ->
              /\ resp' = o.resp
              /\ pc' = "responded"
              /\ UNCHANGED <<call, calls, log>>
         [] o.kind = "throw" ->
              /\ \E e \in Wordings(o.error) :
                   /\ resp' = catchResponse(e)
                   /\ log' = Append(log, catchLog(e))
              /\ pc' = "responded"
              /\ UNCHANGED <<call, calls>>
         [] o.kind = "fetch" ->
              /\ call' = o.call
              /\ calls' = calls + 1
              /\ pc' = "awaiting"
              /\ UNCHANGED <<resp, log>>
  /\ UNCHANGED <<env, req, reply, slots, pure, client>>

FetchRejectsAndRetries ==
  /\ pc = "awaiting"
  /\ \E e \in TransportErrors(call.url) :
       /\ reply' = Reply("rejected", 0, FALSE, NoBody, e)
       /\ IF calls < 2
          THEN /\ calls' = calls + 1
               /\ pc' = "awaiting"
               /\ UNCHANGED <<resp, log>>
          ELSE /\ resp' = catchResponse(e)
               /\ log' = Append(log, catchLog(e))
               /\ pc' = "responded"
               /\ UNCHANGED calls
  /\ UNCHANGED <<env, req, call, slots, pure, client>>

\* the fetch rejects: the caller lets the rejection through to the catch
FetchRejects ==
  /\ pc = "awaiting"
  /\ \E e \in TransportErrors(call.url) :
       /\ reply' = Reply("rejected", 0, FALSE, NoBody, e)
       /\ resp' = catchResponse(e)
       /\ log' = Append(log, catchLog(e))
  /\ pc' = "responded"
  /\ UNCHANGED <<env, req, call, calls, slots, pure, client>>

\* the upstream answers: the caller's code after its fetch, then the
\* handler's success response or its catch
UpstreamResponds ==
  /\ pc = "awaiting"
  /\ \E r \in Replies(call.caller) :
       /\ reply' = r
       /\ IF ~Ok(r.status)
          THEN LET e == Error(failureMessage(call.caller, r.status)) IN
               /\ resp' = catchResponse(e)
               /\ log' = log \o failureLog(call.caller, r.status) \o <<catchLog(e)>>
          ELSE IF ~r.bodyIsJson
          THEN /\ resp' = catchResponse(JsonSyntaxError)
               /\ log' = Append(log, catchLog(JsonSyntaxError))
          ELSE /\ resp' = SuccessResponse(extract(call.caller, r.body))
               /\ log' = log
  /\ pc' = "responded"
  /\ UNCHANGED <<env, req, call, calls, slots, pure, client>>

\* the response is sent; everything the request brought is discarded
Done ==
  /\ pc = "responded"
  /\ pc' = "idle"
  /\ req' = NoReq
  /\ call' = NoCall
  /\ calls' = 0
  /\ reply' = NoReply
  /\ resp' = NoResp
  /\ log' = <<>>
  /\ UNCHANGED <<env, slots, pure, client>>

Next == Receive \/ Dispatch \/ FetchRejects \/ UpstreamResponds \/ Done

Spec == Init /\ [][Next]_vars

TypeOK ==
  /\ pc \in {"idle", "received", "awaiting", "responded"}
  /\ env \in LovableApiKeys
  /\ calls \in 0..1
  /\ resp.status \in {0, 200, 400, 413, 500, 503}

(***************************************************************************)
(* Several requests in flight: the runtime starts a handler per request    *)
(* and interleaves the handlers at their awaits.  slots holds what each    *)
(* handler's closure holds; env is the one value they all read.            *)
(***************************************************************************)
Handlers == 1..MaxHandlers

IdleSlot ==
  [pc |-> "idle", req |-> NoReq, call |-> NoCall, calls |-> 0, reply |-> NoReply,
   resp |-> NoResp, log |-> <<>>]

\* the requests in flight: the default service, a provider with the key in
\* the URL and one with the key in a header, with two different keys, and a
\* body that is not JSON
ConcRequests ==
  {GarbledRequest}
    \cup {Request("POST", TRUE, Text("string", 1), Undefined, "no", c[2], c[3], c[1], UNDEF) :
            c \in {<<Undefined, Undefined, UNDEF>>,
                   <<"gemini", "sk-user-key", UNDEF>>,
                   <<"anthropic", "sk-other-key", <<"https://my.host">>>>}}

InitConc ==
  /\ pc = "idle"
  /\ env \in LovableApiKeys
  /\ req = NoReq
  /\ call = NoCall
  /\ calls = 0
  /\ reply = NoReply
  /\ resp = NoResp
  /\ log = <<>>
  /\ slots = [h \in Handlers |-> IdleSlot]
  /\ pure = NoPure
  /\ client = NoClient

\* what a caller and the handler make of the upstream's answer: the response
\* and the log entries
afterReply(caller, r) ==
  IF ~Ok(r.status)
  THEN LET e == Error(failureMessage(caller, r.status)) IN
       [resp |-> catchResponse(e), log |-> failureLog(caller, r.status) \o <<catchLog(e)>>]
  ELSE IF ~r.bodyIsJson
  THEN [resp |-> catchResponse(JsonSyntaxError), log |-> <<catchLog(JsonSyntaxError)>>]
  ELSE [resp |-> SuccessResponse(extract(caller, r.body)), log |-> <<>>]

\* a request arrives and the runtime starts handler h for it
ReceiveIn(h) ==
  /\ slots[h].pc = "idle"
  /\ \E r \in ConcRequests :
       slots' = [slots EXCEPT ![h] = [@ EXCEPT !.pc = "received", !.req = r]]
  /\ UNCHANGED <<pc, env, req, call, calls, reply, resp, log, pure, client>>

DispatchInSharesRequest(h) ==
  /\ slots[h].pc = "received"
  /\ LET others == {g \in Handlers \ {h} : slots[g].pc # "idle"}
         shared == IF others = {} THEN slots[h].req
                   ELSE [slots[h].req EXCEPT
                           !.customApiKey = slots[CHOOSE g \in others : TRUE].req.customApiKey]
         o == serve(shared, env)
     IN  CASE o.kind = "respond" ->
                slots' = [slots EXCEPT ![h] = [@ EXCEPT !.pc = "responded", !.resp = o.resp]]
           [] o.kind = "throw" ->
                \E e \in Wordings(o.error) :
                  slots' = [slots EXCEPT ![h] =
                              [@ EXCEPT !.pc = "responded", !.resp = catchResponse(e),
                                        !.log = Append(@, catchLog(e))]]
           [] o.kind = "fetch" ->
                slots' = [slots EXCEPT ![h] =
                            [@ EXCEPT !.pc = "awaiting", !.call = o.call, !.calls = @ + 1]]
  /\ UNCHANGED <<pc, env, req, call, calls, reply, resp, log, pure, client>>

\* handler h runs up to its first await of a fetch, or to its response
DispatchIn(h) ==
  /\ slots[h].pc = "received"
  /\ LET o == serve(slots[h].req, env) IN
       CASE o.kind = "respond" ->
              slots' = [slots EXCEPT ![h] = [@ EXCEPT !.pc = "responded", !.resp = o.resp]]
         [] o.kind = "throw" ->
              \E e \in Wordings(o.error) :
                slots' = [slots EXCEPT ![h] =
                            [@ EXCEPT !.pc = "responded", !.resp = catchResponse(e),
                                      !.log = Append(@, catchLog(e))]]
         [] o.kind = "fetch" ->
              slots' = [slots EXCEPT ![h] =
                          [@ EXCEPT !.pc = "awaiting", !.call = o.call, !.calls = @ + 1]]
  /\ UNCHANGED <<pc, env, req, call, calls, reply, resp, log, pure, client>>

\* the fetch of handler h rejects
FetchRejectsIn(h) ==
  /\ slots[h].pc = "awaiting"
  /\ \E e \in TransportErrors(slots[h].call.url) :
       slots' = [slots EXCEPT ![h] =
                   [@ EXCEPT !.pc = "responded",
                             !.reply = Reply("rejected", 0, FALSE, NoBody, e),
                             !.resp = catchResponse(e),
                             !.log = Append(@, catchLog(e))]]
  /\ UNCHANGED <<pc, env, req, call, calls, reply, resp, log, pure, client>>

\* the upstream of handler h answers
UpstreamRespondsIn(h) ==
  /\ slots[h].pc = "awaiting"
  /\ \E r \in Replies(slots[h].call.caller) :
       slots' = [slots EXCEPT ![h] =
                   [@ EXCEPT !.pc = "responded", !.reply = r,
                             !.resp = afterReply(slots[h].call.caller, r).resp,
                             !.log = @ \o afterReply(slots[h].call.caller, r).log]]
  /\ UNCHANGED <<pc, env, req, call, calls, reply, resp, log, pure, client>>

\* the response of handler h is sent and its closure is dropped
DoneIn(h) ==
  /\ slots[h].pc = "responded"
  /\ slots' = [slots EXCEPT ![h] = IdleSlot]
  /\ UNCHANGED <<pc, env, req, call, calls, reply, resp, log, pure, client>>

NextConc ==
  \/ \E h \in Handlers : ReceiveIn(h)
  \/ \E h \in Handlers : DispatchIn(h)
  \/ \E h \in Handlers : FetchRejectsIn(h)
  \/ \E h \in Handlers : UpstreamRespondsIn(h)
  \/ \E h \in Handlers : DoneIn(h)

SpecConc == InitConc /\ [][NextConc]_vars

(***************************************************************************)
(* The pure functions of the program, each applied to arguments drawn from *)
(* a bounded set: pure holds the function's name, its arguments and its    *)
(* result.                                                                 *)
(***************************************************************************)
\* the token strings of at most n tokens over an alphabet
RECURSIVE TokenStrings(_, _)
TokenStrings(alphabet, n) ==
  IF n = 0 THEN {<<>>}
  ELSE LET shorter == TokenStrings(alphabet, n - 1) IN
       shorter \cup {Append(t, a) : t \in shorter, a \in alphabet}

\* the model field of a request: absent, or up to MaxModelLen tokens with
\* white space before, inside and after
ModelInputs == {UNDEF} \cup TokenStrings({" ", NL, "my-model", "x"}, MaxModelLen)

InitPure ==
  /\ pc = "idle"
  /\ env = Undefined
  /\ req = NoReq
  /\ call = NoCall
  /\ calls = 0
  /\ reply = NoReply
  /\ resp = NoResp
  /\ log = <<>>
  /\ slots = NoSlots
  /\ pure = NoPure
  /\ client = NoClient

\* resolveModel(providerType, requestedModel), as the dispatcher calls it:
\* with the resolved provider, which is any non-empty string
ApplyResolveModel ==
  /\ pure = NoPure
  /\ \E providerType \in ProviderTypes \cup {"bogus"}, requestedModel \in ModelInputs :
       pure' = [fn |-> "resolveModel", providerType |-> providerType,
                requestedModel |-> requestedModel,
                result |-> resolveModel(providerType, requestedModel)]
  /\ UNCHANGED <<pc, env, req, call, calls, reply, resp, log, slots, client>>

\* the deployment the Azure URL is built for
AzureModel == <<"gpt-4o-mini">>

\* base URLs as users enter them: nothing, a host, a host with a version or
\* another path, a full endpoint of each family, an Azure endpoint with and
\* without api-version
UrlCores ==
  {<<>>,
   <<"https://my.host">>,
   <<"https://my.host">> \o V1,
   <<"https://my.host", "/", "v", "2">>,
   <<"https://my.host", "/", "v", "1", "0">>,
   <<"https://my.host", "/", "api">>,
   <<"https://my.host">> \o V1 \o ChatCompletions,
   <<"https://my.host">> \o V1 \o <<"/", "messages">>,
   <<"https://my.host", "/", "translate">>,
   <<"https://generativelanguage.googleapis.com", "/", "v", "1", "beta">>,
   <<"https://res.openai.azure.com", "/", "openai", "/", "deployments", "/", "d1">>
     \o ChatCompletions,
   <<"https://res.openai.azure.com", "/", "openai", "/", "deployments", "/", "d1">>
     \o ChatCompletions \o <<"?", "api-version=2023-05-15">>}

\* a core with white space before it and slashes and blanks after it
UrlInputs ==
  {lead \o core \o tail :
     lead \in {<<>>, <<" ">>}, core \in UrlCores, tail \in TokenStrings({"/", " "}, MaxTail)}

NormalizerFamilies == {"openai", "anthropic", "deeplx", "gemini", "azure"}

\* the normalizer of a provider family (for Azure with the fixed model;
\* UNDEF when it throws)
normalize(family, u) ==
  CASE family = "openai" -> normalizeOpenAICompatibleUrl(u)
    [] family = "anthropic" -> normalizeAnthropicUrl(u)
    [] family = "deeplx" -> normalizeDeepLXUrl(u)
    [] family = "gemini" -> normalizeGeminiBase(u)
    [] family = "azure" -> buildAzureUrl(u, AzureModel)

\* a normalizer applied to a URL, and again to its own result
ApplyNormalize ==
  /\ pure = NoPure
  /\ \E family \in NormalizerFamilies, u \in UrlInputs :
       LET once == normalize(family, u) IN
       pure' = [fn |-> "normalize", family |-> family, rawUrl |-> u, once |-> once,
                twice |-> IF once = UNDEF THEN UNDEF ELSE normalize(family, once)]
  /\ UNCHANGED <<pc, env, req, call, calls, reply, resp, log, slots, client>>

\* the key, base URL and model of a stored provider: absent, or tokens and
\* blanks
ConfigValues == {UNDEF} \cup TokenStrings({" ", "v"}, MaxConfigLen)

\* providerConfig: null or undefined
NoConfig ==
  [present |-> FALSE, providerType |-> Undefined, apiKey |-> UNDEF, baseUrl |-> UNDEF,
   model |-> UNDEF]

ProviderConfigs ==
  {NoConfig} \cup
  {[present |-> TRUE, providerType |-> providerType, apiKey |-> apiKey,
    baseUrl |-> baseUrl, model |-> model] :
     providerType \in {"openai", "ollama", "deeplx"}, apiKey \in ConfigValues,
     baseUrl \in ConfigValues, model \in ConfigValues}

BuildInputs ==
  [text : {"", "hello"}, sourceLang : {"auto", "en"}, targetLang : {"zh", "en"},
   providerConfig : ProviderConfigs]

\* providerConfig.<field>?.trim() is truthy
TrimsToTruthy(value) == value # UNDEF /\ Trim(value) # <<>>

buildTranslateRequestBodyOmitsTypeWithoutKey(input) ==
  LET c == input.providerConfig
      withKey == c.present /\ TrimsToTruthy(c.apiKey)
  IN  [keys |-> {"text", "direction", "sourceLang", "targetLang"}
                  \cup (IF withKey THEN {"providerType", "customApiKey"} ELSE {})
                  \cup (IF c.present /\ TrimsToTruthy(c.baseUrl)
                        THEN {"customBaseUrl"} ELSE {})
                  \cup (IF c.present /\ TrimsToTruthy(c.model) THEN {"model"} ELSE {}),
       text |-> input.text,
       direction |-> input.sourceLang \o "-" \o input.targetLang,
       sourceLang |-> input.sourceLang,
       targetLang |-> input.targetLang,
       providerType |-> IF withKey THEN c.providerType ELSE Undefined,
       customApiKey |-> IF withKey THEN Trim(c.apiKey) ELSE UNDEF,
       customBaseUrl |-> IF c.present /\ TrimsToTruthy(c.baseUrl)
                         THEN Trim(c.baseUrl) ELSE UNDEF,
       model |-> IF c.present /\ TrimsToTruthy(c.model) THEN Trim(c.model) ELSE UNDEF]

\* the request body the client builds: the keys it sets and their values
buildTranslateRequestBody(input) ==
  LET c == input.providerConfig IN
  [keys |-> {"text", "direction", "sourceLang", "targetLang"}
              \cup (IF c.present THEN {"providerType"} ELSE {})
              \cup (IF c.present /\ TrimsToTruthy(c.apiKey)
                    THEN {"customApiKey"} ELSE {})
              \cup (IF c.present /\ TrimsToTruthy(c.baseUrl)
                    THEN {"customBaseUrl"} ELSE {})
              \cup (IF c.present /\ TrimsToTruthy(c.model) THEN {"model"} ELSE {}),
   text |-> input.text,
   direction |-> input.sourceLang \o "-" \o input.targetLang,
   sourceLang |-> input.sourceLang,
   targetLang |-> input.targetLang,
   providerType |-> IF c.present THEN c.providerType ELSE Undefined,
   customApiKey |-> IF c.present /\ TrimsToTruthy(c.apiKey) THEN Trim(c.apiKey) ELSE UNDEF,
   customBaseUrl |-> IF c.present /\ TrimsToTruthy(c.baseUrl)
                     THEN Trim(c.baseUrl) ELSE UNDEF,
   model |-> IF c.present /\ TrimsToTruthy(c.model) THEN Trim(c.model) ELSE UNDEF]

ApplyBuildTranslateRequestBody ==
  /\ pure = NoPure
  /\ \E input \in BuildInputs :
       pure' = [fn |-> "buildTranslateRequestBody", input |-> input,
                body |-> buildTranslateRequestBody(input)]
  /\ UNCHANGED <<pc, env, req, call, calls, reply, resp, log, slots, client>>

\* a TranslationProvider of the client's store; the base URL and the model
\* go with the type
StoredProvider(type, apiKey, enabled, isDefault, isSystem) ==
  [type |-> type, apiKey |-> apiKey,
   baseUrl |-> IF type = "ollama" THEN DEFAULT_PROVIDER_BASE_URLS("ollama") ELSE UNDEF,
   model |-> IF type = "ollama" THEN <<"llama3">> ELSE UNDEF,
   enabled |-> enabled, isDefault |-> isDefault, isSystem |-> isSystem]

StoredProviders ==
  {StoredProvider(type, apiKey, enabled, isDefault, isSystem) :
     type \in {"ollama", "openai"}, apiKey \in {UNDEF, <<"sk-test">>},
     enabled \in BOOLEAN, isDefault \in BOOLEAN, isSystem \in BOOLEAN}

\* the lists of at most n providers
RECURSIVE ProviderLists(_)
ProviderLists(n) ==
  IF n = 0 THEN {<<>>}
  ELSE LET shorter == ProviderLists(n - 1) IN
       shorter \cup {Append(l, p) : l \in shorter, p \in StoredProviders}

\* what localStorage holds under STORAGE_KEY: nothing, text that is not
\* JSON, or a list of providers
Stores ==
  {[kind |-> "absent", providers |-> <<>>], [kind |-> "garbled", providers |-> <<>>]}
    \cup {[kind |-> "list", providers |-> l] : l \in ProviderLists(MaxProviders)}

IsUserProvider(p) == ~p.isSystem

getProviders(store) ==
  IF store.kind # "list" THEN <<>> ELSE SelectSeq(store.providers, IsUserProvider)

getDefaultProviderRequiresKey(store) ==
  LET providers == getProviders(store)
      found == {i \in 1..Len(providers) :
                  providers[i].isDefault /\ providers[i].enabled
                    /\ TruthyS(providers[i].apiKey)}
  IN  IF found = {} THEN <<>>
      ELSE <<providers[CHOOSE i \in found : \A j \in found : i <= j]>>

\* providers.find(p => p.isDefault && p.enabled) || null: the provider found,
\* as a list of one, or the empty list for null
getDefaultProvider(store) ==
  LET providers == getProviders(store)
      found == {i \in 1..Len(providers) : providers[i].isDefault /\ providers[i].enabled}
  IN  IF found = {} THEN <<>>
      ELSE <<providers[CHOOSE i \in found : \A j \in found : i <= j]>>

\* the active provider's config, NoConfig for null
getActiveProviderConfig(store) ==
  LET p == getDefaultProvider(store) IN
  IF p = <<>> THEN NoConfig
  ELSE [present |-> TRUE, providerType |-> p[1].type, apiKey |-> p[1].apiKey,
        baseUrl |-> p[1].baseUrl, model |-> p[1].model]

ApplyGetActiveProviderConfig ==
  /\ pure = NoPure
  /\ \E store \in Stores :
       pure' = [fn |-> "getActiveProviderConfig", store |-> store,
                result |-> getActiveProviderConfig(store)]
  /\ UNCHANGED <<pc, env, req, call, calls, reply, resp, log, slots, client>>

\* the values a field of an upstream body can hold: absent, the empty
\* string, a string naming the field, a number
FieldValues(name) == {JsUndefined, Str(<<>>), Str(<<name>>), JsNumber}

ApplyGetDeepLXContent ==
  /\ pure = NoPure
  /\ \E translatedText \in FieldValues("translatedText"), data \in FieldValues("data"),
        translation \in FieldValues("translation"), text \in FieldValues("text") :
       LET body == Body(<<>>, translatedText, data, translation, text) IN
       pure' = [fn |-> "getDeepLXContent", data |-> body,
                result |-> getDeepLXContent(body)]
  /\ UNCHANGED <<pc, env, req, call, calls, reply, resp, log, slots, client>>

NextPure ==
  \/ ApplyGetDeepLXContent
  \/ ApplyResolveModel
  \/ ApplyNormalize
  \/ ApplyBuildTranslateRequestBody
  \/ ApplyGetActiveProviderConfig

SpecPure == InitPure /\ [][NextPure]_vars

(***************************************************************************)
(* The text view of the client (TextTranslation).  A source text is 0 when *)
(* it is blank and a number from 1 otherwise; a translation is the request *)
(* whose response it came from, the text and the target language of that   *)
(* request.  An AbortController is the number of the translate call that   *)
(* created it.                                                             *)
(***************************************************************************)
Blank == 0

SourceTexts == 0..MaxTexts

TextLangs == {"en", "ja"}

\* no AbortSignal among the options of an invocation
NoSignal == 0

\* translatedText '' (by 0), or what the response of request by holds
Translation(by, text, lang) == [by |-> by, text |-> text, lang |-> lang]

NoTranslation == Translation(0, Blank, "")

\* debounceRef: the pending timer's closure (setTimeout(() => translate(text)))
Timer(text, lang) == [text |-> text, lang |-> lang]

NoTimer == Timer(Blank, "")

\* supabase.functions.invoke('translate', options): the body, the signal of
\* the options, and where the promise stands
Invocation(text, lang, signal) == [text |-> text, lang |-> lang, signal |-> signal, pc |-> "awaiting"]

InitialTextView ==
  [view |-> "text", sourceText |-> Blank, translatedText |-> NoTranslation,
   targetLang |-> "en", isTranslating |-> FALSE, debounceRef |-> NoTimer,
   abortRef |-> 0, aborted |-> {}, requests |-> <<>>, toasts |-> 0]

InitText ==
  /\ pc = "idle"
  /\ env \in LovableApiKeys
  /\ req = NoReq
  /\ call = NoCall
  /\ calls = 0
  /\ reply = NoReply
  /\ resp = NoResp
  /\ log = <<>>
  /\ slots = NoSlots
  /\ pure = NoPure
  /\ client = InitialTextView

\* translate(text), up to its await: the options of the invocation hold the
\* body only
translate(c, text, lang) ==
  IF text = Blank THEN [c EXCEPT !.translatedText = NoTranslation]
  ELSE [c EXCEPT !.isTranslating = TRUE,
                 !.aborted = IF c.abortRef # 0 THEN @ \cup {c.abortRef} ELSE @,
                 !.abortRef = Len(c.requests) + 1,
                 !.requests = Append(@, Invocation(text, lang, NoSignal))]

\* the user edits the source text
handleInputChange ==
  /\ \E text \in SourceTexts :
       client' = [client EXCEPT
                    !.sourceText = text,
                    !.translatedText = IF text = Blank THEN NoTranslation ELSE @,
                    !.debounceRef = IF text = Blank THEN NoTimer
                                    ELSE Timer(text, client.targetLang)]
  /\ UNCHANGED <<pc, env, req, call, calls, reply, resp, log, slots, pure>>

\* the user clicks the translate button
handleTranslateClick ==
  /\ client.sourceText # Blank
  /\ Len(client.requests) < MaxCalls
  /\ client' = translate(client, client.sourceText, client.targetLang)
  /\ UNCHANGED <<pc, env, req, call, calls, reply, resp, log, slots, pure>>

\* the user picks another target language: the effect re-arms the timer when
\* there is text
setTargetLang ==
  /\ \E lang \in TextLangs \ {client.targetLang} :
       client' = [client EXCEPT
                    !.targetLang = lang,
                    !.debounceRef = IF client.sourceText # Blank
                                    THEN Timer(client.sourceText, lang) ELSE @]
  /\ UNCHANGED <<pc, env, req, call, calls, reply, resp, log, slots, pure>>

\* the debounce timer fires
TimerFires ==
  /\ client.debounceRef # NoTimer
  /\ Len(client.requests) < MaxCalls
  /\ client' = [translate(client, client.debounceRef.text, client.debounceRef.lang)
                  EXCEPT !.debounceRef = NoTimer]
  /\ UNCHANGED <<pc, env, req, call, calls, reply, resp, log, slots, pure>>

\* the invocation resolves with data: setTranslatedText, then the finally
InvokeResolves ==
  /\ \E k \in 1..Len(client.requests) :
       /\ client.requests[k].pc = "awaiting"
       /\ client' = [client EXCEPT
                       !.requests[k].pc = "resolved",
                       !.translatedText = Translation(k, client.requests[k].text,
                                                      client.requests[k].lang),
                       !.isTranslating = FALSE]
  /\ UNCHANGED <<pc, env, req, call, calls, reply, resp, log, slots, pure>>

\* the invocation resolves with an error or rejects: the toast, then the
\* finally
InvokeFails ==
  /\ \E k \in 1..Len(client.requests) :
       /\ client.requests[k].pc = "awaiting"
       /\ client' = [client EXCEPT
                       !.requests[k].pc = "failed",
                       !.toasts = IF @ < MaxCalls THEN @ + 1 ELSE @,
                       !.isTranslating = FALSE]
  /\ UNCHANGED <<pc, env, req, call, calls, reply, resp, log, slots, pure>>

NextText ==
  \/ handleInputChange
  \/ handleTranslateClick
  \/ setTargetLang
  \/ TimerFires
  \/ InvokeResolves
  \/ InvokeFails

SpecText == InitText /\ [][NextText]_vars

(***************************************************************************)
(* The document view of the client (DocumentTranslation; the page view of  *)
(* Index has the same loop and the same cancelRef).  One PDF file of       *)
(* MaxPages pages is uploaded.  A run is one call of startTranslation: its *)
(* position, the page it awaits, the length of its allResults, and whether *)
(* handleCancel ran while it was unfinished.                               *)
(***************************************************************************)
Run(at, page, results, cancelled) == [pc |-> at, page |-> page, results |-> results, cancelled |-> cancelled]

\* translatedPages: the run that published them and how many they are
Pages(by, n) == [by |-> by, n |-> n]

NoPages == Pages(0, 0)

InitialDocView ==
  [view |-> "doc", state |-> "upload", cancelRef |-> FALSE,
   translatedPages |-> NoPages, runs |-> <<>>, toasts |-> 0]

InitDoc ==
  /\ pc = "idle"
  /\ env \in LovableApiKeys
  /\ req = NoReq
  /\ call = NoCall
  /\ calls = 0
  /\ reply = NoReply
  /\ resp = NoResp
  /\ log = <<>>
  /\ slots = NoSlots
  /\ pure = NoPure
  /\ client = InitialDocView

\* the run leaves the loop over the files: it publishes unless cancelRef is
\* set
finish(c, r) ==
  IF c.cancelRef
  THEN [c EXCEPT !.runs[r].pc = "ended"]
  ELSE [c EXCEPT !.runs[r].pc = "ended",
                 !.translatedPages = Pages(r, c.runs[r].results),
                 !.state = "done"]

\* the head of the loop over the pages, for page i: past the last page or
\* cancelled, the run goes on to the generating stage; else it awaits the
\* page's translation
pageLoop(c, r, i) ==
  IF i > MaxPages \/ c.cancelRef
  THEN [c EXCEPT !.runs[r].pc = "generating"]
  ELSE [c EXCEPT !.runs[r].pc = "translating", !.runs[r].page = i]

\* the catch of the loop over the files: with cancelRef set it breaks, else
\* it reports the file; the one file was the last, so the loop ends
catchFile(c, r) ==
  finish(IF c.cancelRef THEN c
         ELSE [c EXCEPT !.toasts = IF @ < MaxRuns THEN @ + 1 ELSE @], r)

\* the user starts a translation (the button shows in the upload state)
startTranslation ==
  /\ client.state = "upload"
  /\ Len(client.runs) < MaxRuns
  /\ client' = [client EXCEPT
                  !.cancelRef = FALSE,
                  !.translatedPages = NoPages,
                  !.state = "translating",
                  !.runs = Append(@, Run("extracting", 0, 0, FALSE))]
  /\ UNCHANGED <<pc, env, req, call, calls, reply, resp, log, slots, pure>>

\* delay(300) and extractTextFromFile return with the pages of the PDF
ExtractReturns ==
  /\ \E r \in 1..Len(client.runs) :
       /\ client.runs[r].pc = "extracting"
       /\ client' = pageLoop(client, r, 1)
  /\ UNCHANGED <<pc, env, req, call, calls, reply, resp, log, slots, pure>>

\* extractTextFromFile rejects
ExtractFails ==
  /\ \E r \in 1..Len(client.runs) :
       /\ client.runs[r].pc = "extracting"
       /\ client' = catchFile(client, r)
  /\ UNCHANGED <<pc, env, req, call, calls, reply, resp, log, slots, pure>>

\* translateText of the awaited page returns: the page is appended to
\* allResults and the loop goes to the next page
PageReturns ==
  /\ \E r \in 1..Len(client.runs) :
       /\ client.runs[r].pc = "translating"
       /\ client' = pageLoop([client EXCEPT !.runs[r].results = @ + 1], r,
                             client.runs[r].page + 1)
  /\ UNCHANGED <<pc, env, req, call, calls, reply, resp, log, slots, pure>>

\* translateText of the awaited page rejects
PageFails ==
  /\ \E r \in 1..Len(client.runs) :
       /\ client.runs[r].pc = "translating"
       /\ client' = catchFile(client, r)
  /\ UNCHANGED <<pc, env, req, call, calls, reply, resp, log, slots, pure>>

\* delay(400) of the generating stage returns: the file is done, and it was
\* the last
GenerateReturns ==
  /\ \E r \in 1..Len(client.runs) :
       /\ client.runs[r].pc = "generating"
       /\ client' = finish(client, r)
  /\ UNCHANGED <<pc, env, req, call, calls, reply, resp, log, slots, pure>>

\* the user cancels (the button shows while translating)
handleCancel ==
  /\ client.state = "translating"
  /\ client' = [client EXCEPT
                  !.cancelRef = TRUE,
                  !.state = "upload",
                  !.runs = [r \in DOMAIN @ |->
                              IF @[r].pc # "ended" THEN [@[r] EXCEPT !.cancelled = TRUE]
                              ELSE @[r]]]
  /\ UNCHANGED <<pc, env, req, call, calls, reply, resp, log, slots, pure>>

\* the user starts over from the result
handleReset ==
  /\ client.state = "done"
  /\ client' = [client EXCEPT !.state = "upload", !.translatedPages = NoPages]
  /\ UNCHANGED <<pc, env, req, call, calls, reply, resp, log, slots, pure>>

NextDoc ==
  \/ startTranslation
  \/ ExtractReturns
  \/ ExtractFails
  \/ PageReturns
  \/ PageFails
  \/ GenerateReturns
  \/ handleCancel
  \/ handleReset

SpecDoc == InitDoc /\ [][NextDoc]_vars

(***************************************************************************)
(* The settings dialog of the client (ApiKeySettings and its ProviderForm) *)
(* over the provider store.  A provider's id is a number: the providers of *)
(* the store the dialog starts from are numbered from 1, crypto.randomUUID *)
(* gives the numbers after MaxProviders.                                   *)
(***************************************************************************)
SettingsProvider(id, type, apiKey, enabled, isDefault, isSystem) ==
  [id |-> id, type |-> type, apiKey |-> apiKey, enabled |-> enabled,
   isDefault |-> isDefault, isSystem |-> isSystem]

\* editingProvider: null
NoEditing == SettingsProvider(0, "", Undefined, FALSE, FALSE, FALSE)

\* the providers of a list that are the default
Defaults(providers) == {i \in 1..Len(providers) : providers[i].isDefault}

\* the stores of n providers, numbered 1 to n
RECURSIVE NumberedProviders(_)
NumberedProviders(n) ==
  IF n = 0 THEN {<<>>}
  ELSE {Append(l, SettingsProvider(n, "openai", "sk-user-key", enabled, isDefault, isSystem)) :
          l \in NumberedProviders(n - 1), enabled \in BOOLEAN, isDefault \in BOOLEAN,
          isSystem \in BOOLEAN}

\* the stores a session starts from: at most one provider is the default
InitialStores ==
  {[kind |-> "list", providers |-> l] :
     l \in {l \in UNION {NumberedProviders(n) : n \in 0..MaxProviders} :
              Cardinality(Defaults(l)) <= 1}}

\* localStorage.setItem(STORAGE_KEY, JSON.stringify(providers.filter(p => !p.isSystem)))
saveProviders(providers) == [kind |-> "list", providers |-> SelectSeq(providers, IsUserProvider)]

\* persist(updated): the list without system providers becomes the state
\* and the store
persist(c, updated) ==
  [c EXCEPT !.providers = SelectSeq(updated, IsUserProvider),
            !.store = saveProviders(SelectSeq(updated, IsUserProvider))]

InitSettings ==
  /\ pc = "idle"
  /\ env \in LovableApiKeys
  /\ req = NoReq
  /\ call = NoCall
  /\ calls = 0
  /\ reply = NoReply
  /\ resp = NoResp
  /\ log = <<>>
  /\ slots = NoSlots
  /\ pure = NoPure
  /\ \E store \in InitialStores :
       client = [view |-> "settings", open |-> FALSE, dialogView |-> "list",
                 providers |-> getProviders(store), editingProvider |-> NoEditing,
                 store |-> store, uuids |-> 0]

\* the dialog opens (the providers are read from the store) or closes (back
\* to the list)
setOpen ==
  /\ client' = IF client.open
                THEN [client EXCEPT !.open = FALSE, !.dialogView = "list",
                                    !.editingProvider = NoEditing]
                ELSE [client EXCEPT !.open = TRUE,
                                    !.providers = getProviders(client.store)]
  /\ UNCHANGED <<pc, env, req, call, calls, reply, resp, log, slots, pure>>

openAdd ==
  /\ client.open /\ client.dialogView = "list"
  /\ client' = [client EXCEPT !.editingProvider = NoEditing, !.dialogView = "add"]
  /\ UNCHANGED <<pc, env, req, call, calls, reply, resp, log, slots, pure>>

openEdit ==
  /\ client.open /\ client.dialogView = "list"
  /\ \E i \in 1..Len(client.providers) :
       client' = [client EXCEPT !.editingProvider = client.providers[i],
                                !.dialogView = "edit"]
  /\ UNCHANGED <<pc, env, req, call, calls, reply, resp, log, slots, pure>>

handleDelete ==
  /\ client.open /\ client.dialogView = "list"
  /\ \E i \in 1..Len(client.providers) :
       LET id == client.providers[i].id
           keeps(p) == p.id # id
       IN  client' = persist(client, SelectSeq(client.providers, keeps))
  /\ UNCHANGED <<pc, env, req, call, calls, reply, resp, log, slots, pure>>

handleSetDefaultKeepsOthers ==
  /\ client.open /\ client.dialogView = "list"
  /\ \E i \in 1..Len(client.providers) :
       /\ ~client.providers[i].isDefault
       /\ LET id == client.providers[i].id
               updated == [j \in DOMAIN client.providers |->
                             [client.providers[j] EXCEPT
                                !.isDefault = @ \/ client.providers[j].id = id]]
           IN  client' = persist(client, updated)
  /\ UNCHANGED <<pc, env, req, call, calls, reply, resp, log, slots, pure>>

\* the star button of a provider that is not the default
handleSetDefault ==
  /\ client.open /\ client.dialogView = "list"
  /\ \E i \in 1..Len(client.providers) :
       /\ ~client.providers[i].isDefault
       /\ LET id == client.providers[i].id
               updated == [j \in DOMAIN client.providers |->
                             [client.providers[j] EXCEPT
                                !.isDefault = (client.providers[j].id = id)]]
           IN  client' = persist(client, updated)
  /\ UNCHANGED <<pc, env, req, call, calls, reply, resp, log, slots, pure>>

\* the provider's fields that hold 'apiKey'
NeedsApiKey(type) == type # "ollama"

\* handleSave of the form, then handleSaveProvider: a blank name or a blank
\* key the type needs ends it; else the provider, with the id and the
\* isDefault of the one being edited or a new id and false, replaces the
\* one of its id or is added
handleSave ==
  /\ client.open /\ client.dialogView \in {"add", "edit"}
  /\ client.dialogView = "add" => client.uuids < MaxAdded
  /\ \E nameIsBlank \in BOOLEAN, type \in {"openai", "ollama"}, apiKey \in {"", "sk-user-key"} :
       IF nameIsBlank \/ (NeedsApiKey(type) /\ apiKey = "")
       THEN UNCHANGED client
       ELSE LET isEdit == client.editingProvider # NoEditing
                provider ==
                  SettingsProvider(
                    IF isEdit THEN client.editingProvider.id
                    ELSE MaxProviders + client.uuids + 1,
                    type, IF apiKey = "" THEN Undefined ELSE apiKey, TRUE,
                    IF isEdit THEN client.editingProvider.isDefault ELSE FALSE, FALSE)
                existing == {j \in 1..Len(client.providers) : client.providers[j].id = provider.id}
                updated == IF existing # {}
                           THEN [j \in DOMAIN client.providers |->
                                   IF j \in existing THEN provider ELSE client.providers[j]]
                           ELSE Append(client.providers, provider)
            IN  client' = [persist(client, updated) EXCEPT
                             !.dialogView = "list", !.editingProvider = NoEditing,
                             !.uuids = IF isEdit THEN @ ELSE @ + 1]
  /\ UNCHANGED <<pc, env, req, call, calls, reply, resp, log, slots, pure>>

NextSettings ==
  \/ setOpen
  \/ openAdd
  \/ openEdit
  \/ handleDelete
  \/ handleSetDefault
  \/ handleSave

SpecSettings == InitSettings /\ [][NextSettings]_vars

(***************************************************************************)
(* Vocabulary of the properties, stated on the request and not on the      *)
(* handler's own intermediate values.                                      *)
(***************************************************************************)
\* the handler has run for the request in hand
Dispatched == pc \in {"awaiting", "responded"}

\* a POST whose body parsed
IsPost == req.method = "POST" /\ req.bodyIsJson

\* the text field is a non-empty string of at most 50,000 characters
TextAccepted == req.text.t = "string" /\ req.text.n \in 1..MAX_TEXT_LENGTH

\* the text field is missing or the empty string
TextMissing == req.text.t = "undefined" \/ (req.text.t = "string" /\ req.text.n = 0)

\* a language field is non-empty and outside the fixed language set
BadLang(lang) == lang \notin {Undefined, ""} /\ lang \notin VALID_LANGS

PassesValidation ==
  IsPost /\ TextAccepted /\ ~BadLang(req.sourceLang) /\ ~BadLang(req.targetLang)

\* the request supplies none of providerType, customApiKey, customBaseUrl
SuppliesNone ==
  /\ req.providerType \in {Undefined, ""}
  /\ req.customApiKey \in {Undefined, ""}
  /\ req.customBaseUrl \in {UNDEF, <<>>}

\* the request carries no customApiKey (absent or empty)
NoCustomKey == req.customApiKey \in {Undefined, ""}

NoOutboundCall == call = NoCall /\ calls = 0

\* the outbound call is the default-gateway call: the fixed endpoint, the
\* server-held credential as Bearer token, the fixed model
IsGatewayCall ==
  /\ call.url = LovableGatewayUrl
  /\ call.authorization = env
  /\ env # Undefined
  /\ call.model = LovableModel

\* the server-held credential appears somewhere in the outbound call
CarriesServerCredential ==
  /\ env # Undefined
  /\ \/ call.authorization = env
     \/ call.keyHeaderValue = env
     \/ \E i \in 1..Len(call.url) : call.url[i] = "key=" \o env

\* the upstream answered with a status outside 2xx
UpstreamFailed(status) ==
  pc = "responded" /\ reply.kind = "response" /\ reply.status = status
    /\ status \notin 200..299

\* the provider the request names, "openai" when it names none but brings
\* a key or a base URL
NamedProvider == IF req.providerType \in {Undefined, ""} THEN "openai" ELSE req.providerType

\* the request is served by the OpenAI-compatible caller: the default
\* gateway, Azure, one of openai, deepseek, qwen, ollama, custom, or a
\* providerType outside the closed set (which the final branch of the
\* dispatcher hands to the same caller)
OpenAIFamilyRequest ==
  \/ SuppliesNone
  \/ NamedProvider \in {"openai", "deepseek", "qwen", "ollama", "custom", "azure"}
  \/ NamedProvider \notin ProviderTypes

C2_ProviderName(providerType) ==
  CASE providerType = "microsoft" -> "Microsoft Translator"
    [] providerType = "google-translate" -> "Google Cloud Translation"
    [] providerType = "gemini" -> "Gemini"
    [] providerType = "anthropic" -> "Anthropic"
    [] providerType = "azure" -> "Azure OpenAI"

C2_KeyRequired == {"microsoft", "google-translate", "gemini", "anthropic", "azure"}

C2_RequiredKeyMissingFails ==
  (Dispatched /\ PassesValidation /\ req.providerType \in C2_KeyRequired /\ NoCustomKey) =>
    /\ pc = "responded"
    /\ resp.status = 500
    /\ resp.keys = {"error"}
    /\ resp.error = [text |-> C2_ProviderName(req.providerType) \o " requires API Key", n |-> 0, url |-> <<>>]
    /\ NoOutboundCall
    /\ reply = NoReply

C2_Witness ==
  /\ pc = "responded" /\ PassesValidation /\ req.providerType = "microsoft"
  /\ req.customApiKey = "" /\ req.customBaseUrl = <<"https://my.host">>
  /\ req.model # UNDEF /\ resp.status = 500

\* C3 as stated: a POST request whose text is missing or empty, or whose
\* non-empty sourceLang or targetLang is outside the language set, is
\* answered with a 400 validation error naming a violated field, and no
\* outbound call is made for it.  (Stated for a text that is absent or a
\* string, the case the claim speaks of.)
C3_Rejected == TextMissing \/ BadLang(req.sourceLang) \/ BadLang(req.targetLang)

C3_ViolatedFields ==
  (IF ~TextAccepted THEN {Msg("Missing text")} ELSE {})
    \cup (IF BadLang(req.sourceLang) THEN {Msg("Invalid source language")} ELSE {})
    \cup (IF BadLang(req.targetLang) THEN {Msg("Invalid target language")} ELSE {})

C3_Original ==
  (Dispatched /\ IsPost /\ C3_Rejected /\ req.text.t \in {"undefined", "string"}) =>
    /\ pc = "responded"
    /\ resp.status = 400
    /\ resp.error \in C3_ViolatedFields
    /\ NoOutboundCall

\* C3 amended: validation runs before any routing.  A POST request whose
\* text is missing or empty (or another falsy value) is answered 400
\* "Missing text"; one whose text is a string of 1..50,000 characters and
\* whose non-empty sourceLang or targetLang is outside the language set is
\* answered 400 naming the language field (the source first); when the
\* text is a string of more than 50,000 characters or a truthy value that
\* is not a string, the request is answered 413 before its language fields
\* are looked at.  In every one of these cases no provider caller runs and
\* no outbound call is made, whatever providerType and credentials the
\* request carries.
C3_TextFalsy == TextMissing \/ (req.text.t # "string" /\ req.text.n = 0)

C3_ValidationBeforeRouting ==
  (Dispatched /\ IsPost /\ C3_Rejected) =>
    /\ pc = "responded"
    /\ NoOutboundCall
    /\ reply = NoReply
    /\ log = <<>>
    /\ resp.keys = {"error"}
    /\ C3_TextFalsy => resp.status = 400 /\ resp.error = Msg("Missing text")
    /\ (TextAccepted /\ BadLang(req.sourceLang)) =>
         resp.status = 400 /\ resp.error = Msg("Invalid source language")
    /\ (TextAccepted /\ ~BadLang(req.sourceLang)) =>
         resp.status = 400 /\ resp.error = Msg("Invalid target language")
    /\ (~C3_TextFalsy /\ ~TextAccepted) =>
         /\ resp.status = 413
         /\ resp.error = MsgN("Text exceeds maximum length of N characters", MAX_TEXT_LENGTH)

C3_Witness ==
  /\ pc = "responded" /\ IsPost /\ TextAccepted /\ BadLang(req.sourceLang)
  /\ req.providerType = "microsoft" /\ req.customApiKey = "sk-user-key"
  /\ resp.status = 400

\* C4: a text of exactly 50,000 characters passes the text checks and, the
\* rest of the request being valid, is forwarded in the outbound call
\* (unless routing fails for a missing credential or base URL); a text of
\* 50,001 characters or more is answered 413 and no outbound call is made.
C4_LengthBoundary ==
  (Dispatched /\ IsPost /\ req.text.t = "string") =>
    /\ req.text.n > MAX_TEXT_LENGTH =>
         pc = "responded" /\ resp.status = 413 /\ NoOutboundCall
    /\ req.text.n = MAX_TEXT_LENGTH =>
         /\ resp.status # 413
         /\ resp.error # Msg("Missing text")
         /\ PassesValidation =>
              /\ resp.status \notin {400, 413}
              /\ call # NoCall => call.text = req.text /\ calls = 1
              /\ call = NoCall => pc = "responded" /\ resp.status \in {500, 503}
              /\ (SuppliesNone /\ env # Undefined) => call # NoCall
              /\ (req.providerType \in {"openai", "deeplx", "ollama"}
                     /\ req.customBaseUrl = UNDEF) => call # NoCall

C4_Witness ==
  /\ pc = "awaiting" /\ IsPost /\ req.text = Text("string", MAX_TEXT_LENGTH)
  /\ call.text.n = MAX_TEXT_LENGTH /\ req.providerType = "deeplx"

\* C5: on the default-gateway path, when the server-held credential is not
\* configured, the response is HTTP 503 with the message telling the user to
\* configure a custom provider and no outbound call is made; HTTP 503 is
\* returned in no other situation.
C5_UnavailableIs503 ==
  /\ (Dispatched /\ PassesValidation /\ SuppliesNone /\ env = Undefined) =>
       /\ pc = "responded"
       /\ resp.status = 503
       /\ resp.keys = {"error"}
       /\ resp.error = MSG_CONFIGURE_CUSTOM
       /\ NoOutboundCall
  /\ resp.status = 503 => (PassesValidation /\ SuppliesNone /\ env = Undefined)

C5_Witness ==
  /\ pc = "responded" /\ PassesValidation /\ SuppliesNone /\ env = Undefined
  /\ resp.status = 503 /\ calls = 0

\* C6: when the upstream of an OpenAI-compatible call (openai, deepseek,
\* qwen, ollama, custom, azure, the default gateway) answers 429 the error
\* message is exactly the fixed rate-limited string, when it answers 402
\* exactly the fixed quota-exhausted string; the two strings differ from
\* each other and from the generic failure message; the response status is
\* 500 in both cases.
C6_RateLimitAndQuotaMessages ==
  /\ MSG_RATE_LIMITED # MSG_QUOTA_EXHAUSTED
  /\ \A n \in UpstreamStatuses :
       MSG_REQUEST_FAILED(n).text \notin {MSG_RATE_LIMITED.text, MSG_QUOTA_EXHAUSTED.text}
  /\ (OpenAIFamilyRequest /\ UpstreamFailed(429)) =>
       resp.status = 500 /\ resp.keys = {"error"} /\ resp.error = MSG_RATE_LIMITED
  /\ (OpenAIFamilyRequest /\ UpstreamFailed(402)) =>
       resp.status = 500 /\ resp.keys = {"error"} /\ resp.error = MSG_QUOTA_EXHAUSTED

C6_Witness ==
  /\ OpenAIFamilyRequest /\ req.providerType = "azure" /\ UpstreamFailed(429)
  /\ resp.error = MSG_RATE_LIMITED /\ resp.status = 500

\* C7: for every provider caller, an upstream non-2xx status N other than
\* the special-cased 429 and 402 of the OpenAI-compatible caller produces an
\* error message that carries N, and the response status is 500 whatever N
\* is.
C7_UpstreamStatusNotPropagated ==
  \A n \in UpstreamStatuses :
    UpstreamFailed(n) =>
      /\ resp.status = 500
      /\ resp.keys = {"error"}
      /\ ~(OpenAIFamilyRequest /\ n \in {429, 402}) => resp.error.n = n

C7_Witness ==
  /\ UpstreamFailed(503) /\ req.providerType = "gemini"
  /\ resp.status = 500 /\ resp.error.n = 503

\* C8 as stated: for every LLM-style caller (the OpenAI-compatible family,
\* Azure, the default gateway, Gemini, Anthropic) an upstream 429 yields
\* the rate-limited message and an upstream 402 the quota-exhausted
\* message; for DeepLX, Microsoft and Google those statuses yield the
\* generic message carrying the status number.
C8_LLMStyleRequest == OpenAIFamilyRequest \/ NamedProvider \in {"gemini", "anthropic"}

C8_Original ==
  \A n \in {429, 402} :
    UpstreamFailed(n) =>
      IF C8_LLMStyleRequest
      THEN resp.error = (IF n = 429 THEN MSG_RATE_LIMITED ELSE MSG_QUOTA_EXHAUSTED)
      ELSE resp.error.n = n

\* C8 amended: only the OpenAI-compatible caller (the OpenAI-compatible
\* family, Azure, the default gateway) turns an upstream 429 into the
\* rate-limited message and an upstream 402 into the quota-exhausted
\* message; for Gemini and Anthropic, as for DeepLX, Microsoft and Google,
\* those statuses yield the caller's generic message carrying the status
\* number.
C8_OnlyOpenAICallerSpecialCases ==
  \A n \in {429, 402} :
    UpstreamFailed(n) =>
      IF OpenAIFamilyRequest
      THEN resp.error = (IF n = 429 THEN MSG_RATE_LIMITED ELSE MSG_QUOTA_EXHAUSTED)
      ELSE /\ resp.error.n = n
           /\ resp.error.text \notin {MSG_RATE_LIMITED.text, MSG_QUOTA_EXHAUSTED.text}

C8_Witness ==
  /\ UpstreamFailed(429) /\ req.providerType = "anthropic"
  /\ resp.error = MsgN("Anthropic translation failed (N)", 429)

\* C9: every response to a POST request is either HTTP 200 with a body
\* holding translatedText and no error, or a non-200 status with a body
\* holding error and no translatedText; the status is one of 200, 400, 413,
\* 500, 503.
C9_ResponseShape ==
  (pc = "responded" /\ req.method = "POST") =>
    /\ resp.status \in {200, 400, 413, 500, 503}
    /\ \/ /\ resp.status = 200
          /\ resp.keys = {"translatedText"}
          /\ resp.translatedText.t # "undefined"
          /\ resp.error = EmptyMsg
       \/ /\ resp.status # 200
          /\ resp.keys = {"error"}
          /\ resp.translatedText = JsUndefined
          /\ resp.error # EmptyMsg

C9_Witness ==
  /\ pc = "responded" /\ req.method = "POST" /\ resp.status = 200
  /\ resp.translatedText = Hola /\ reply.status = 200

\* C10: handling one request performs at most one outbound call; once that
\* call has failed (transport error or non-2xx) the failure is in the
\* response and no further call is made for the request.
C10_CallFailed ==
  reply.kind = "rejected" \/ (reply.kind = "response" /\ reply.status \notin 200..299)

C10_AtMostOneCallNoRetry ==
  /\ [](/\ calls <= 1
        /\ C10_CallFailed =>
             pc = "responded" /\ calls = 1 /\ resp.keys = {"error"}
               /\ resp.status \in {500, 503})
  /\ [][C10_CallFailed => calls' <= calls]_vars

C10_Witness ==
  /\ pc = "responded" /\ reply.kind = "rejected" /\ calls = 1
  /\ resp.status = 500

(***************************************************************************)
(* C11 .. C20                                                              *)
(***************************************************************************)
\* the values the catch block of the handler has caught for the request in
\* hand: the catch block logs each value it catches
Caught == {log[i].err : i \in {j \in 1..Len(log) : log[j].tag = "translate error:"}}

\* the message the catch block derives from a caught value
C11_MessageOf(e) == IF e.message.text # "" THEN e.message ELSE Msg("Unknown error")

\* C11 as stated: whatever exception the handler of a POST request caught,
\* the response is {error} with status 500 and the exception's message
\* ("Unknown error" when it has none).
C11_Original ==
  (pc = "responded" /\ req.method = "POST") =>
    \A e \in Caught :
      /\ resp.status = 500
      /\ resp.keys = {"error"}
      /\ resp.error = C11_MessageOf(e)

\* C11: a response exists exactly when the handler has finished, which it
\* has as soon as its outbound call returned or failed, and the only step
\* after it is sending that response (exactly one response per request).
\* For a POST request every exception (unparseable body, unparseable URL,
\* transport failure, provider error, missing credential) is caught: the
\* response is {error} alone, with status 500 and the exception's message,
\* "Unknown error" when the thrown value has no message; only the default
\* service's DEFAULT_TRANSLATION_SERVICE_UNAVAILABLE exception is answered
\* with status 503 and the configuration guidance instead of its message.
\* A POST request whose handling threw nothing is answered 200, 400 or 413.
C11_EveryExceptionCaught ==
  /\ []((pc = "responded") <=> (resp # NoResp))
  /\ [](reply # NoReply => pc = "responded")
  /\ []((pc = "responded" /\ req.method = "POST") =>
         /\ Cardinality(Caught) <= 1
         /\ \A e \in Caught :
              /\ resp.keys = {"error"}
              /\ resp.translatedText.t = "undefined"
              /\ IF e.message.text = "DEFAULT_TRANSLATION_SERVICE_UNAVAILABLE"
                 THEN resp.status = 503 /\ resp.error = MSG_CONFIGURE_CUSTOM
                 ELSE resp.status = 500 /\ resp.error = C11_MessageOf(e)
         /\ Caught = {} => resp.status \in {200, 400, 413}
         /\ ~req.bodyIsJson => resp.status = 500 /\ Caught # {}
         /\ reply.kind = "rejected" => reply.error \in Caught)
  /\ [][resp # NoResp => (resp' = NoResp /\ pc' = "idle")]_vars

\* a fetch rejected with a value that has no message: 500 "Unknown error"
C11_Witness ==
  /\ pc = "responded" /\ req.method = "POST" /\ reply.kind = "rejected"
  /\ reply.error.message.text = ""
  /\ resp.status = 500 /\ resp.error.text = "Unknown error"

\* the provider types whose caller tolerates a missing key
C12_KeyOptional == {"deeplx", "openai", "deepseek", "qwen", "ollama", "custom"}

\* the endpoint a key-optional provider type resolves to when the request
\* brings no base URL
C12_DefaultEndpoint(providerType) ==
  CASE providerType = "deeplx" -> <<"https://api.deeplx.org", "/", "translate">>
    [] providerType = "deepseek" ->
         <<"https://api.deepseek.com", "/", "v", "1", "/", "chat", "/", "completions">>
    [] providerType = "qwen" ->
         <<"https://dashscope.aliyuncs.com", "/", "compatible-mode", "/", "v", "1",
           "/", "chat", "/", "completions">>
    [] providerType = "ollama" ->
         <<"http://localhost:11434", "/", "v", "1", "/", "chat", "/", "completions">>
    [] OTHER -> <<"https://api.openai.com", "/", "v", "1", "/", "chat", "/", "completions">>

\* the endpoint the request in hand resolves to
C12_Endpoint ==
  IF req.customBaseUrl \in {UNDEF, <<>>} THEN C12_DefaultEndpoint(req.providerType)
  ELSE IF req.providerType = "deeplx" THEN normalizeDeepLXUrl(req.customBaseUrl)
  ELSE normalizeOpenAICompatibleUrl(req.customBaseUrl)

\* a "key=" query parameter somewhere in a URL
HasKeyParameter(url, key) == \E i \in 1..Len(url) : url[i] = "key=" \o key

\* C12: for a request that reached routing with providerType deeplx, openai,
\* deepseek, qwen, ollama or custom and no customApiKey (absent or empty),
\* the dispatcher does not fail for lack of a credential: whenever the
\* resolved endpoint is a URL it makes exactly one outbound call to it, and
\* the call carries no Authorization header, no key header and no key in
\* its URL; the only failure before the call is an endpoint that is no URL.
C12_KeyOptionalProvidersCallWithoutKey ==
  (Dispatched /\ PassesValidation /\ req.providerType \in C12_KeyOptional /\ NoCustomKey) =>
    /\ IsAbsoluteUrl(C12_Endpoint) =>
         /\ calls = 1
         /\ call.url = C12_Endpoint
         /\ call.authorization = Undefined
         /\ call.keyHeaderValue = Undefined
         /\ \A key \in ApiKeys : ~HasKeyParameter(call.url, key)
         /\ call.caller = IF req.providerType = "deeplx" THEN "translateWithDeepLX"
                          ELSE "translateWithOpenAICompatible"
    /\ ~IsAbsoluteUrl(C12_Endpoint) =>
         /\ NoOutboundCall
         /\ resp.status = 500
         /\ resp.error.text = "Invalid URL"

\* ollama with an empty key and no base URL: the call goes to the local
\* default endpoint without any credential
C12_Witness ==
  /\ pc = "awaiting" /\ PassesValidation /\ req.providerType = "ollama"
  /\ req.customApiKey = "" /\ req.customBaseUrl = UNDEF
  /\ call.url = C12_DefaultEndpoint("ollama") /\ call.authorization = Undefined

\* the request names no provider but brings a key or a base URL
C13_OnlyCredentials == req.providerType \in {Undefined, ""} /\ ~SuppliesNone

\* the normalized customBaseUrl or, without one, the OpenAI default endpoint
C13_Endpoint ==
  IF req.customBaseUrl \in {UNDEF, <<>>}
  THEN <<"https://api.openai.com", "/", "v", "1", "/", "chat", "/", "completions">>
  ELSE normalizeOpenAICompatibleUrl(req.customBaseUrl)

\* the trimmed model of the request or, without one, gpt-4o-mini
C13_Model ==
  IF req.model # UNDEF /\ Trim(req.model) # <<>> THEN Trim(req.model)
  ELSE <<"gpt-4o-mini">>

C14_EmptyDefault == {"azure", "custom"}

\* C14: a request that reached routing for a provider type whose default
\* base URL is empty (azure, custom) and that brings no customBaseUrl
\* (absent or empty) fails: it is answered with an {error} response and no
\* outbound call is made, to this or to any other provider's endpoint.
C14_EmptyDefaultNeedsBaseUrl ==
  (Dispatched /\ PassesValidation /\ req.providerType \in C14_EmptyDefault
     /\ req.customBaseUrl \in {UNDEF, <<>>}) =>
    /\ pc = "responded"
    /\ NoOutboundCall
    /\ reply = NoReply
    /\ resp.keys = {"error"}
    /\ resp.status = 500

\* C15: a POST request is answered 413 only when its text is a string
\* longer than 50,000 characters; a request whose text is present but is
\* not a string is rejected with status 400.
C15_Only413ForLongStrings ==
  (pc = "responded" /\ IsPost) =>
    /\ resp.status = 413 => (req.text.t = "string" /\ req.text.n > MAX_TEXT_LENGTH)
    /\ req.text.t \notin {"string", "undefined"} => resp.status = 400

\* the model string has a character that is not white space
NonBlank(m) == m # UNDEF /\ \E i \in 1..Len(m) : m[i] \notin WhiteSpace

\* the model string from its first to its last character that is not white
\* space
Trimmed(m) ==
  LET idx == {i \in 1..Len(m) : m[i] \notin WhiteSpace}
      first == CHOOSE i \in idx : \A j \in idx : i <= j
      last == CHOOSE i \in idx : \A j \in idx : j <= i
  IN  SubSeq(m, first, last)

\* the documented default model of a provider type, the global fallback for
\* the types that have none
C16_DefaultModel(providerType) ==
  CASE providerType \in {"openai", "azure", "custom"} -> <<"gpt-4o-mini">>
    [] providerType = "gemini" -> <<"gemini-2.5-flash">>
    [] providerType = "anthropic" -> <<"claude-sonnet-4-20250514">>
    [] providerType = "ollama" -> <<"llama3">>
    [] providerType = "deepseek" -> <<"deepseek-chat">>
    [] providerType = "qwen" -> <<"qwen-turbo">>
    [] providerType \in {"deeplx", "microsoft", "google-translate"} -> <<"gpt-4o-mini">>
    [] OTHER -> <<"gpt-4o-mini">>

\* C16: for every provider type, resolveModel(type, m) is m trimmed when m
\* has a character that is not white space; otherwise (m absent, empty or
\* white space only) it is the provider's default model, and the global
\* fallback gpt-4o-mini for deeplx, microsoft and google-translate, which
\* have no default; the result is never empty.
C16_ResolveModel ==
  pure.fn = "resolveModel" =>
    /\ pure.result = IF NonBlank(pure.requestedModel)
                     THEN Trimmed(pure.requestedModel)
                     ELSE C16_DefaultModel(pure.providerType)
    /\ pure.result # <<>>
    /\ pure.result # UNDEF
    /\ pure.result[1] \notin WhiteSpace
    /\ pure.result[Len(pure.result)] \notin WhiteSpace

\* a white-space model for a provider without default model comes out as the
\* global fallback
C16_Witness ==
  /\ pure.fn = "resolveModel"
  /\ pure.providerType = "deeplx" /\ pure.requestedModel = <<" ", NL>>
  /\ pure.result = <<"gpt-4o-mini">>

\* C17: URL normalization is idempotent: for every family's normalizer
\* (OpenAI-compatible, Anthropic, DeepLX, Gemini base, Azure with a fixed
\* model) and every input URL, with or without white space, trailing
\* slashes, an existing suffix or an api-version parameter, normalizing the
\* result again gives the same result.
C17_NormalizeIdempotent == pure.fn = "normalize" => pure.twice = pure.once

\* the raw customApiKey of the request in hand appears in a message
C18_ShowsKey(message) ==
  Truthy(req.customApiKey) /\ HasKeyParameter(message.url, req.customApiKey)

\* C18: the raw customApiKey of a request appears in no diagnostic log entry
\* and in no response body, on success and on every failure path (a
\* transport failure of a call whose URL carries the key as a query
\* parameter included), and once the response is sent nothing of the
\* request, its key or its base URL is retained.
C18_KeyNeverLoggedNorReturned ==
  /\ \A i \in 1..Len(log) : ~C18_ShowsKey(log[i].err.message)
  /\ ~C18_ShowsKey(resp.error)
  /\ pc = "idle" => (req = NoReq /\ call = NoCall /\ reply = NoReply /\ log = <<>>)

\* the outbound call of a request handled alone
C19_AloneCall(r, lovableApiKey) == serve(r, lovableApiKey).call

\* the responses a request handled alone can get, given what its fetch
\* came to
C19_AloneResponses(r, lovableApiKey, rep) ==
  LET o == serve(r, lovableApiKey) IN
  CASE o.kind = "respond" -> {o.resp}
    [] o.kind = "throw" -> {catchResponse(e) : e \in Wordings(o.error)}
    [] o.kind = "fetch" ->
         IF rep.kind = "rejected" THEN {catchResponse(rep.error)}
         ELSE IF rep.kind = "response" THEN {afterReply(o.call.caller, rep).resp}
         ELSE {}

C20_Optional(body, key, value, configured) ==
  /\ key \in body.keys <=> NonBlank(configured)
  /\ value = IF NonBlank(configured) THEN Trimmed(configured) ELSE UNDEF

\* C20: buildTranslateRequestBody always puts text, sourceLang and
\* targetLang, as given, into the body; with a provider config it always
\* includes providerType (also for a provider without key) and includes
\* customApiKey, customBaseUrl and model each exactly when the configured
\* value is not blank, stored trimmed; without a provider config none of
\* these four fields is present.
C20_RequestBody ==
  pure.fn = "buildTranslateRequestBody" =>
    LET b == pure.body
        c == pure.input.providerConfig
    IN  /\ {"text", "sourceLang", "targetLang"} \subseteq b.keys
        /\ b.text = pure.input.text
        /\ b.sourceLang = pure.input.sourceLang
        /\ b.targetLang = pure.input.targetLang
        /\ c.present =>
             /\ "providerType" \in b.keys
             /\ b.providerType = c.providerType
             /\ C20_Optional(b, "customApiKey", b.customApiKey, c.apiKey)
             /\ C20_Optional(b, "customBaseUrl", b.customBaseUrl, c.baseUrl)
             /\ C20_Optional(b, "model", b.model, c.model)
        /\ ~c.present =>
             /\ b.keys \cap {"providerType", "customApiKey", "customBaseUrl", "model"} = {}
             /\ b.providerType = Undefined
             /\ b.customApiKey = UNDEF /\ b.customBaseUrl = UNDEF /\ b.model = UNDEF

\* a provider without key, its base URL padded with blanks, its model blank:
\* providerType and the trimmed base URL are in the body, key and model are not
C20_Witness ==
  /\ pure.fn = "buildTranslateRequestBody"
  /\ pure.input.providerConfig.present
  /\ pure.input.providerConfig.providerType = "ollama"
  /\ pure.input.providerConfig.apiKey = UNDEF
  /\ pure.input.providerConfig.baseUrl = <<" ", "v">>
  /\ pure.input.providerConfig.model = <<" ">>
  /\ pure.body.keys = {"text", "direction", "sourceLang", "targetLang", "providerType",
                        "customBaseUrl"}
  /\ pure.body.customBaseUrl = <<"v">>

(***************************************************************************)
(* C21 .. C30                                                              *)
(***************************************************************************)
\* the positions of the stored providers that are default and enabled
C21_DefaultEnabled(store) ==
  {i \in 1..Len(store.providers) :
     store.providers[i].isDefault /\ store.providers[i].enabled}

\* the config getActiveProviderConfig returns for a stored provider
C21_ConfigOf(p) ==
  [present |-> TRUE, providerType |-> p.type, apiKey |-> p.apiKey,
   baseUrl |-> p.baseUrl, model |-> p.model]

\* C21 as stated: getActiveProviderConfig returns the config of a stored
\* provider that is default and enabled, with or without key, and null only
\* when no stored provider is both default and enabled.
C21_Original ==
  pure.fn = "getActiveProviderConfig" =>
    IF C21_DefaultEnabled(pure.store) = {}
    THEN ~pure.result.present
    ELSE \E i \in C21_DefaultEnabled(pure.store) :
           pure.result = C21_ConfigOf(pure.store.providers[i])

\* C21: getActiveProviderConfig returns the providerType, apiKey (undefined
\* when there is none), baseUrl and model of the first stored provider that
\* is default, enabled and not a legacy system provider, whether or not it
\* has an API key; it returns null exactly when no stored provider is
\* default, enabled and not a system provider (an absent or unparseable
\* store included).
C21_ActiveProvider ==
  pure.fn = "getActiveProviderConfig" =>
    LET eligible == {i \in C21_DefaultEnabled(pure.store) :
                       ~pure.store.providers[i].isSystem}
    IN  IF eligible = {} THEN pure.result = NoConfig
        ELSE \E i \in eligible :
               /\ \A j \in eligible : i <= j
               /\ pure.result = C21_ConfigOf(pure.store.providers[i])

\* the default provider has no key and is selected all the same
C21_Witness ==
  /\ pure.fn = "getActiveProviderConfig"
  /\ pure.store.kind = "list" /\ Len(pure.store.providers) = 1
  /\ pure.store.providers[1].type = "ollama"
  /\ pure.store.providers[1].apiKey = UNDEF
  /\ pure.result.present /\ pure.result.providerType = "ollama"
  /\ pure.result.apiKey = UNDEF /\ pure.result.model = <<"llama3">>

\* how often one token string occurs in another
Occurrences(s, sub) ==
  Cardinality({i \in 1..(Len(s) - Len(sub) + 1) : SubSeq(s, i, i + Len(sub) - 1) = sub})

\* the string ends in /v<N>: a slash, the letter v and one or more digits
C23_EndsInVersion(u) ==
  \E i \in 1..(Len(u) - 2) :
    /\ u[i] = "/" /\ u[i + 1] = "v"
    /\ \A j \in (i + 2)..Len(u) : u[j] \in Digits

\* what the three rules make of a trimmed URL without trailing slashes
C23_ByRule(u) ==
  IF u = <<>>
  THEN <<"https://api.openai.com", "/", "v", "1", "/", "chat", "/", "completions">>
  ELSE IF EndsWith(u, <<"/", "chat", "/", "completions">>) THEN u
  ELSE IF C23_EndsInVersion(u) THEN u \o <<"/", "chat", "/", "completions">>
  ELSE u \o <<"/", "v", "1", "/", "chat", "/", "completions">>

\* C23 as stated: the three rules, and for every non-blank input a result
\* that ends in /chat/completions and contains that suffix once.
C23_Original ==
  (pure.fn = "normalize" /\ pure.family = "openai") =>
    /\ pure.once = C23_ByRule(normalizeBaseUrl(pure.rawUrl))
    /\ NonBlank(pure.rawUrl) =>
         /\ EndsWith(pure.once, <<"/", "chat", "/", "completions">>)
         /\ Occurrences(pure.once, <<"/", "chat", "/", "completions">>) = 1

\* C23: normalizeOpenAICompatibleUrl, after trimming and stripping trailing
\* slashes, keeps a URL that ends in /chat/completions, appends
\* /chat/completions to one that ends in /v1 or /v<N>, and otherwise appends
\* /v1/chat/completions (an input of which nothing is left becomes the
\* OpenAI default endpoint); so every result ends in /chat/completions.  It
\* contains that suffix once unless the input holds /chat/completions
\* followed by more (a query string, say): then the suffix is appended again.
C23_SuffixRules ==
  (pure.fn = "normalize" /\ pure.family = "openai") =>
    LET u == normalizeBaseUrl(pure.rawUrl)
        suffix == <<"/", "chat", "/", "completions">>
    IN  /\ pure.once = C23_ByRule(u)
        /\ EndsWith(pure.once, suffix)
        /\ Occurrences(pure.once, suffix) =
             IF u = <<>> THEN 1
             ELSE IF EndsWith(u, suffix) THEN Occurrences(u, suffix)
             ELSE Occurrences(u, suffix) + 1

\* a base URL that ends in /v10, entered with a trailing slash, gets only
\* /chat/completions appended
C23_Witness ==
  /\ pure.fn = "normalize" /\ pure.family = "openai"
  /\ pure.rawUrl = <<"https://my.host", "/", "v", "1", "0", "/">>
  /\ pure.once = <<"https://my.host", "/", "v", "1", "0", "/", "chat", "/", "completions">>

\* a JSON value is a non-empty string
C24_NonEmptyString(v) == v.t = "string" /\ v.s # <<>>

\* C24: the DeepLX extractor returns the first of the fields translatedText,
\* data, translation, text, in that order, that holds a non-empty string
\* (so a field present alone yields its value and the earliest of several
\* wins), and the empty string when none holds a non-empty string.
C24_FirstNonEmptyField ==
  pure.fn = "getDeepLXContent" =>
    LET d == pure.data IN
    pure.result =
      IF C24_NonEmptyString(d.translatedText) THEN d.translatedText
      ELSE IF C24_NonEmptyString(d.data) THEN d.data
      ELSE IF C24_NonEmptyString(d.translation) THEN d.translation
      ELSE IF C24_NonEmptyString(d.text) THEN d.text
      ELSE [t |-> "string", s |-> <<>>]

\* the language a request asks for, an absent or empty one replaced
C25_Source == IF req.sourceLang \in {Undefined, ""} THEN "auto" ELSE req.sourceLang

C25_Target == IF req.targetLang \in {Undefined, ""} THEN "en" ELSE req.targetLang

C25_LLMCallers == {"translateWithOpenAICompatible", "translateWithGemini", "translateWithAnthropic"}

\* C25: on every path, the default gateway included, an absent or empty
\* sourceLang counts as "auto" and an absent or empty targetLang as "en".
\* With the source "auto" the Microsoft call carries no from parameter, the
\* Google call no source field, the DeepLX call source_lang "auto" and the
\* system prompt of an LLM call asks to auto-detect; otherwise each carries
\* the source language; every call carries the target language.
C25_LanguageDefaults ==
  call # NoCall =>
    /\ call.caller = "translateWithMicrosoft" =>
          /\ call.src = (IF C25_Source = "auto" THEN Undefined ELSE msLangMap(C25_Source))
          /\ call.tgt = msLangMap(C25_Target)
          /\ Occurrences(call.url, <<"from=" \o msLangMap(C25_Source)>>)
               = (IF C25_Source = "auto" THEN 0 ELSE 1)
    /\ call.caller = "translateWithGoogle" =>
          /\ call.src = (IF C25_Source = "auto" THEN Undefined ELSE googleLangMap(C25_Source))
          /\ call.tgt = googleLangMap(C25_Target)
    /\ call.caller = "translateWithDeepLX" =>
          /\ call.src = C25_Source
          /\ call.tgt = C25_Target
    /\ call.caller \in C25_LLMCallers =>
          /\ call.prompt.mode = (IF C25_Source = "auto" THEN "auto-detect" ELSE "translate-from")
          /\ call.prompt.from = (IF C25_Source = "auto" THEN "" ELSE langMap(C25_Source))
          /\ call.prompt.to = langMap(C25_Target)

\* a DeepLX call for a request with an empty source and target language
C25_Witness ==
  /\ call.caller = "translateWithDeepLX"
  /\ req.sourceLang = "" /\ req.targetLang = ""
  /\ call.src = "auto" /\ call.tgt = "en"

\* the handler has dispatched a valid request that does not take the
\* default gateway
C26_Routed ==
  /\ pc \in {"awaiting", "responded"}
  /\ req.method = "POST" /\ req.bodyIsJson /\ validate(req) = NoResp
  /\ ~usesDefaultService(req)

C26_Unknown == req.providerType # Undefined /\ req.providerType # "" /\ req.providerType \notin ProviderTypes

C26_Endpoint ==
  IF TruthyS(req.customBaseUrl) THEN normalizeOpenAICompatibleUrl(req.customBaseUrl)
  ELSE DEFAULT_PROVIDER_BASE_URLS("openai")

C26_Model == IF NonBlank(req.model) THEN Trimmed(req.model) ELSE <<"gpt-4o-mini">>

\* a provider caller ran: it made its one upstream call, or it threw before
\* its fetch (a URL that is none, Azure without a base URL)
C26_CallerReached ==
  \/ calls = 1
  \/ calls = 0 /\ resp.error.text \in {"Invalid URL", MSG_AZURE_NEEDS_BASE_URL.text}

C26_NeedKey == {"microsoft", "google-translate", "gemini", "anthropic", "azure"}

\* C26 as stated: every valid request that does not take the default gateway
\* reaches exactly one provider caller.
C26_Original == C26_Routed => C26_CallerReached

\* C26: providerType is not validated. A valid request whose providerType is
\* a string outside the eleven identifiers is handled by the OpenAI-compatible
\* caller with the normalized customBaseUrl or else the OpenAI default
\* endpoint and with the request's trimmed model or else gpt-4o-mini. Every
\* valid request that does not take the default gateway reaches exactly one
\* provider caller, unless its provider is one of microsoft, google-translate,
\* gemini, anthropic, azure and it has no key: that request reaches no caller
\* and is answered 500.
C26_UnknownProviderIsOpenAICompatible ==
  C26_Routed =>
    /\ calls <= 1
    /\ C26_Unknown =>
          IF IsAbsoluteUrl(C26_Endpoint)
          THEN /\ calls = 1
               /\ call.caller = "translateWithOpenAICompatible"
               /\ call.url = C26_Endpoint
               /\ call.model = C26_Model
          ELSE calls = 0 /\ resp.status = 500 /\ resp.error.text = "Invalid URL"
    /\ IF resolvedProvider(req) \in C26_NeedKey /\ ~Truthy(req.customApiKey)
       THEN calls = 0 /\ resp.status = 500 /\ ~C26_CallerReached
       ELSE C26_CallerReached

\* an unknown provider type, without key or base URL, called at the OpenAI
\* default endpoint and answered
C26_Witness ==
  /\ C26_Routed /\ C26_Unknown
  /\ req.customApiKey = Undefined /\ req.customBaseUrl = UNDEF
  /\ call.caller = "translateWithOpenAICompatible"
  /\ call.url = DEFAULT_PROVIDER_BASE_URLS("openai")
  /\ call.model = <<"gpt-4o-mini">>
  /\ resp.status = 200

\* the upstream answered 2xx with a JSON body
C27_Answered ==
  /\ pc = "responded" /\ reply.kind = "response"
  /\ Ok(reply.status) /\ reply.bodyIsJson

\* the body lacks the field the caller's extractor expects, or the field is
\* empty or not a string
C27_FieldUnusable ==
  IF call.caller = "translateWithDeepLX"
  THEN \A v \in {reply.body.translatedText, reply.body.data, reply.body.translation, reply.body.text} : ~C24_NonEmptyString(v)
  ELSE reply.body.items = <<>> \/ ~C24_NonEmptyString(reply.body.items[1].text)

\* C27: when the upstream answers 2xx and its body lacks the field the
\* provider's extractor expects, or that field is empty or not a string,
\* the handler responds 200 with translatedText the empty string, for every
\* provider caller.
C27_UnusableFieldGivesEmptyText ==
  (C27_Answered /\ C27_FieldUnusable) =>
    /\ resp.status = 200
    /\ resp.keys = {"translatedText"}
    /\ resp.translatedText = [t |-> "string", s |-> <<>>]

\* the translate calls whose request is in flight and whose signal, if it
\* has one, is not aborted
C22_LiveRequests ==
  {k \in 1..Len(client.requests) :
     /\ client.requests[k].pc = "awaiting"
     /\ client.requests[k].signal \notin client.aborted}

\* C22: in the text view every translate call passes an AbortSignal to the
\* function invocation, a new call aborts the signal of the call before it,
\* and at most one request that is not aborted is in flight.
C22_SignalPassedAndEarlierAborted ==
  /\ \A k \in 1..Len(client.requests) :
       /\ client.requests[k].signal # NoSignal
       /\ k < Len(client.requests) => client.requests[k].signal \in client.aborted
  /\ Cardinality(C22_LiveRequests) <= 1

\* the newest translate call
C28_Newest == Len(client.requests)

\* C28: in the text view the displayed translation belongs to the most
\* recently issued request: a response of an earlier request never writes
\* the displayed translation, and isTranslating stays set while the newest
\* request is in flight.
C28_NoStaleResponse ==
  /\ [](C28_Newest > 0 /\ client.requests[C28_Newest].pc = "awaiting"
          => client.isTranslating)
  /\ [][client'.translatedText # client.translatedText
          => client'.translatedText.by \in {0, Len(client'.requests)}]_vars

\* the runs that await a page and append it when it returns
C29_Appending == {r \in 1..Len(client.runs) : client.runs[r].pc = "translating"}

\* C29: in the document view a cancelled run never publishes its pages nor
\* sets the state done, even when a new run starts before the cancelled
\* run's page in flight returns; at most one run appends results at a time.
C29_CancelledRunNeverPublishes ==
  /\ \A r \in 1..Len(client.runs) :
       client.runs[r].cancelled => client.translatedPages.by # r
  /\ Cardinality(C29_Appending) <= 1

\* the ids of the providers of a list
C30_Ids(providers) == {providers[i].id : i \in 1..Len(providers)}

\* C30: starting from a store with at most one default provider, after any
\* sequence of add, edit, delete and set-default at most one provider is
\* the default, in the dialog and in the store; a provider that is added
\* is not the default; deleting the default provider leaves no default.
C30_AtMostOneDefault ==
  /\ [](/\ Cardinality(Defaults(client.providers)) <= 1
         /\ Cardinality(Defaults(client.store.providers)) <= 1)
  /\ [][\A i \in 1..Len(client'.providers) :
          client'.providers[i].id \notin C30_Ids(client.providers)
            => ~client'.providers[i].isDefault]_vars
  /\ [][(\E i \in Defaults(client.providers) :
           client.providers[i].id \notin C30_Ids(client'.providers))
          => Defaults(client'.providers) = {} /\ Defaults(client'.store.providers) = {}]_vars

\* a provider added in the session, then made the default in place of the
\* store's own default, which is still listed
C30_Witness ==
  /\ client.dialogView = "list"
  /\ client.store.providers = client.providers
  /\ \E i, j \in 1..Len(client.providers) :
       /\ client.providers[i].id > MaxProviders /\ client.providers[i].isDefault
       /\ client.providers[j].id <= MaxProviders /\ ~client.providers[j].isDefault

====
